---- MODULE Spec2Model ----
(***************************************************************************)
(* A model of the PB&J document pipeline (src/src/pbj): the content        *)
(* chunker of Butter, the per-unit processors of Butter and Jelly, the     *)
(* two stage runners, the metadata file and the Sandwich orchestrator.     *)
(*                                                                         *)
(* Text is modelled character by character: a Python str is a sequence of  *)
(* one-character strings, so that len, split, strip and the substring      *)
(* tests of the source are computed, not assumed.                          *)
(***************************************************************************)
EXTENDS Integers, Sequences, FiniteSets, TLC

(***************************************************************************)
(* Bounds of the model                                                     *)
(***************************************************************************)
\* longest text of the exhaustive part of the chunker's inputs
MaxLen == 5
\* most blocks concatenated in a structured chunker input
MaxBlocks == 3
\* length of the long filler paragraph (two paragraphs share a chunk only
\* under a budget of at least twice the prompt overhead)
LongLen == 2000
\* most pages of a document
MaxUnits == 3
\* most operations the caller starts on the document folder
MaxOps == 3

(***************************************************************************)
(* Python str operations                                                   *)
(***************************************************************************)
\* characters str.strip() removes
Whitespace == {" ", "\n", "\t", "\r"}

\* s[i:j] with 1-based inclusive bounds; empty when j < i
Slice(s, i, j) == IF j < i THEN <<>> ELSE SubSeq(s, i, j)

\* sub in s
Contains(s, sub) ==
    \E i \in 1..(Len(s) - Len(sub) + 1) : SubSeq(s, i, i + Len(sub) - 1) = sub

\* s.find(sub, from) as a 1-based index, 0 when absent
Find(s, sub, from) ==
    LET hits == {i \in from..(Len(s) - Len(sub) + 1) :
                    SubSeq(s, i, i + Len(sub) - 1) = sub}
    IN IF hits = {} THEN 0
       ELSE CHOOSE i \in hits : \A j \in hits : i <= j

\* s.split(sep): the pieces between the leftmost non-overlapping occurrences
Split(s, sep) ==
    LET k == Len(sep)
        hits == {i \in 1..(Len(s) - k + 1) : SubSeq(s, i, i + k - 1) = sep}
        RECURSIVE Pick(_)
        Pick(from) ==
            LET later == {i \in hits : i >= from}
            IN IF later = {} THEN << Slice(s, from, Len(s)) >>
               ELSE LET nxt == CHOOSE i \in later : \A j \in later : i <= j
                    IN << Slice(s, from, nxt - 1) >> \o Pick(nxt + k)
    IN Pick(1)

\* s.strip()
Strip(s) ==
    IF \A i \in 1..Len(s) : s[i] \in Whitespace THEN <<>>
    ELSE LET first == CHOOSE i \in 1..Len(s) :
                          /\ s[i] \notin Whitespace
                          /\ \A j \in 1..(i - 1) : s[j] \in Whitespace
             back == CHOOSE k \in 0..(Len(s) - 1) :
                          /\ s[Len(s) - k] \notin Whitespace
                          /\ \A j \in (Len(s) - k + 1)..Len(s) : s[j] \in Whitespace
         IN SubSeq(s, first, Len(s) - back)

\* sep.join(parts)
RECURSIVE Join(_, _)
Join(parts, sep) ==
    IF parts = <<>> THEN <<>>
    ELSE IF Len(parts) = 1 THEN parts[1]
    ELSE parts[1] \o sep \o Join(Tail(parts), sep)

\* s.startswith(p), s.endswith(p)
StartsWith(s, p) == Len(s) >= Len(p) /\ SubSeq(s, 1, Len(p)) = p
EndsWith(s, p) == Len(s) >= Len(p) /\ SubSeq(s, Len(s) - Len(p) + 1, Len(s)) = p

\* the string literals of the source
ParagraphSep == <<"\n", "\n">>
SentenceSep == <<".", " ">>
LineSep == <<"\n">>
Pipe == <<"|">>
TableOpen == <<"<", "t", "a", "b", "l", "e">>
TableClose == <<"<", "/", "t", "a", "b", "l", "e", ">">>
CommentOpen == <<"<", "!", "-", "-">>
CommentClose == <<"-", "-", ">">>

(***************************************************************************)
(* Butter: the content chunker                                             *)
(***************************************************************************)
\* prompt_overhead of _estimate_tokens
PromptOverhead == 500

\* Butter._estimate_tokens
estimate_tokens(text) == (Len(text) \div 4) + PromptOverhead

\* Butter._detect_table_boundaries, the HTML part: the non-overlapping matches
\* of <table[^>]*>.*?</table> (DOTALL) as Python (start, end) offsets
RECURSIVE html_table_matches(_, _)
html_table_matches(content, from) ==
    LET open == Find(content, TableOpen, from)
        gt == IF open = 0 THEN 0 ELSE Find(content, <<">">>, open + Len(TableOpen))
        close == IF gt = 0 THEN 0 ELSE Find(content, TableClose, gt + 1)
    IN IF close = 0 THEN <<>>
       ELSE << <<open - 1, close + Len(TableClose) - 1>> >>
            \o html_table_matches(content, close + Len(TableClose))

\* the line test of _detect_table_boundaries; Python reads
\* "A and B or C" as "(A and B) or C"
is_table_line(line) ==
    \/ (Contains(line, Pipe) /\ StartsWith(Strip(line), Pipe))
    \/ EndsWith(Strip(line), Pipe)

\* Butter._detect_table_boundaries, the markdown part: runs of table lines
\* as (first line, line after the last) pairs of 0-based LINE indices
RECURSIVE pipe_table_runs(_, _, _)
pipe_table_runs(lines, i, table_start) ==
    IF i > Len(lines)
    THEN IF table_start # -1 THEN << <<table_start, Len(lines)>> >> ELSE <<>>
    ELSE IF is_table_line(lines[i])
         THEN pipe_table_runs(lines, i + 1,
                              IF table_start = -1 THEN i - 1 ELSE table_start)
         ELSE IF table_start # -1
              THEN << <<table_start, i - 1>> >> \o pipe_table_runs(lines, i + 1, -1)
              ELSE pipe_table_runs(lines, i + 1, -1)

\* Butter._detect_table_boundaries
detect_table_boundaries(content) ==
    html_table_matches(content, 1) \o pipe_table_runs(Split(content, LineSep), 1, -1)

\* the interval test of _chunk_content (paragraph_has_table)
paragraph_has_table(table_boundaries, paragraph_start, paragraph_end) ==
    \E k \in 1..Len(table_boundaries) :
        LET start == table_boundaries[k][1]
            end == table_boundaries[k][2]
        IN \/ (start <= paragraph_start /\ end >= paragraph_start)
           \/ (start <= paragraph_end /\ end >= paragraph_end)
           \/ (start >= paragraph_start /\ end <= paragraph_end)

\* chunks.append(current_chunk.strip()) guarded by "if current_chunk.strip()"
flush_chunk(chunks, current_chunk) ==
    IF Strip(current_chunk) # <<>> THEN Append(chunks, Strip(current_chunk))
    ELSE chunks

\* one iteration of the sentence loop of _chunk_content
sentence_step(st, sentence, max_tokens) ==
    LET sentence_tokens == estimate_tokens(sentence)
    IN IF st.current_tokens + sentence_tokens > max_tokens
       THEN [st EXCEPT !.chunks = flush_chunk(st.chunks, st.current_chunk),
                       !.current_chunk = sentence,
                       !.current_tokens = sentence_tokens]
       ELSE [st EXCEPT !.current_chunk =
                           IF st.current_chunk # <<>>
                           THEN st.current_chunk \o SentenceSep \o sentence
                           ELSE sentence,
                       !.current_tokens = st.current_tokens + sentence_tokens]

\* the sentence loop of _chunk_content (the fallback for a large paragraph)
RECURSIVE sentence_loop(_, _, _)
sentence_loop(st, sentences, max_tokens) ==
    IF sentences = <<>> THEN st
    ELSE sentence_loop(sentence_step(st, Head(sentences), max_tokens),
                       Tail(sentences), max_tokens)

\* a variant of paragraph_too_large with the comparison off by one
paragraph_too_large_ge(paragraph, max_tokens) == estimate_tokens(paragraph) >= max_tokens

\* whether the sentence-level fallback is taken for a paragraph
paragraph_too_large(paragraph, max_tokens) == estimate_tokens(paragraph) > max_tokens

\* a variant of paragraph_step that starts a new chunk without saving the
\* current one
paragraph_step_no_flush(st, paragraph, max_tokens, table_boundaries) ==
    LET paragraph_tokens == estimate_tokens(paragraph)
        paragraph_start == st.char_pos
        paragraph_end == st.char_pos + Len(paragraph)
        has_table == paragraph_has_table(table_boundaries, paragraph_start, paragraph_end)
        flushed == st.chunks
        next ==
            IF st.current_tokens + paragraph_tokens > max_tokens
            THEN IF paragraph_too_large(paragraph, max_tokens)
                 THEN sentence_loop(
                          [st EXCEPT !.chunks = flushed,
                                     !.current_chunk = <<>>,
                                     !.current_tokens = 0,
                                     !.critical = st.critical \/ has_table],
                          Split(paragraph, SentenceSep), max_tokens)
                 ELSE [st EXCEPT !.chunks = flushed,
                                 !.current_chunk = paragraph,
                                 !.current_tokens = paragraph_tokens]
            ELSE [st EXCEPT !.current_chunk =
                                IF st.current_chunk # <<>>
                                THEN st.current_chunk \o ParagraphSep \o paragraph
                                ELSE paragraph,
                            !.current_tokens = st.current_tokens + paragraph_tokens]
    IN [next EXCEPT !.char_pos = st.char_pos + Len(paragraph) + 2]

\* one iteration of the paragraph loop of _chunk_content
paragraph_step(st, paragraph, max_tokens, table_boundaries) ==
    LET paragraph_tokens == estimate_tokens(paragraph)
        paragraph_start == st.char_pos
        paragraph_end == st.char_pos + Len(paragraph)
        has_table == paragraph_has_table(table_boundaries, paragraph_start, paragraph_end)
        flushed == flush_chunk(st.chunks, st.current_chunk)
        next ==
            IF st.current_tokens + paragraph_tokens > max_tokens
            THEN IF paragraph_too_large(paragraph, max_tokens)
                 THEN sentence_loop(
                          [st EXCEPT !.chunks = flushed,
                                     !.current_chunk = <<>>,
                                     !.current_tokens = 0,
                                     !.critical = st.critical \/ has_table],
                          Split(paragraph, SentenceSep), max_tokens)
                 ELSE [st EXCEPT !.chunks = flushed,
                                 !.current_chunk = paragraph,
                                 !.current_tokens = paragraph_tokens]
            ELSE [st EXCEPT !.current_chunk =
                                IF st.current_chunk # <<>>
                                THEN st.current_chunk \o ParagraphSep \o paragraph
                                ELSE paragraph,
                            !.current_tokens = st.current_tokens + paragraph_tokens]
    IN [next EXCEPT !.char_pos = st.char_pos + Len(paragraph) + 2]

\* the locals of _chunk_content before its loop
StartOfWalk ==
    [chunks |-> <<>>, current_chunk |-> <<>>, current_tokens |-> 0,
     char_pos |-> 0, critical |-> FALSE]

\* the paragraph loop of _chunk_content
RECURSIVE paragraph_loop(_, _, _, _)
paragraph_loop(st, paragraphs, max_tokens, table_boundaries) ==
    IF paragraphs = <<>> THEN st
    ELSE paragraph_loop(paragraph_step(st, Head(paragraphs), max_tokens, table_boundaries),
                        Tail(paragraphs), max_tokens, table_boundaries)

\* the state of _chunk_content after its loop; critical records the
\* "Large paragraph contains table" warning
chunk_walk(content, max_tokens) ==
    paragraph_loop(StartOfWalk,
                   Split(content, ParagraphSep), max_tokens,
                   detect_table_boundaries(content))

\* a variant of chunk_content whose early return tests "<" instead of "<="
chunk_content_strict(content, max_tokens) ==
    IF estimate_tokens(content) < max_tokens THEN << content >>
    ELSE LET st == chunk_walk(content, max_tokens)
         IN flush_chunk(st.chunks, st.current_chunk)

\* Butter._chunk_content
chunk_content(content, max_tokens) ==
    IF estimate_tokens(content) <= max_tokens THEN << content >>
    ELSE LET st == chunk_walk(content, max_tokens)
         IN flush_chunk(st.chunks, st.current_chunk)

(***************************************************************************)
(* Butter: the Enhance unit processor                                      *)
(***************************************************************************)
\* Butter.max_tokens when no config is given
DefaultMaxTokens == 8192

\* the separator enhance_markdown_async joins the enhanced chunks with
MergeSep == ParagraphSep \o <<"-", "-", "-">> \o ParagraphSep

THOpen == <<"<", "t", "h">>
THClose == <<"<", "/", "t", "h", ">">>

\* re.findall(r'<th[^>]*>([^<]+)</th>', text), scanning from position from
RECURSIVE th_headers(_, _)
th_headers(text, from) ==
    LET open == Find(text, THOpen, from)
        gt == IF open = 0 THEN 0 ELSE Find(text, <<">">>, open + 3)
        lt == IF gt = 0 THEN 0 ELSE Find(text, <<"<">>, gt + 1)
    IN IF open = 0 THEN <<>>
       ELSE IF /\ lt > gt + 1
               /\ Slice(text, lt, lt + 4) = THClose
            THEN << Slice(text, gt + 1, lt - 1) >> \o th_headers(text, lt + 5)
            ELSE th_headers(text, open + 1)

Abs(n) == IF n < 0 THEN -n ELSE n

\* Butter._analyze_enhancements
analyze_enhancements(original, enhanced) ==
    LET original_headers == th_headers(original, 1)
        enhanced_headers == th_headers(enhanced, 1)
        enhanced_lines == Len(Split(enhanced, LineSep))
        original_lines == Len(Split(original, LineSep))
        notes ==
            (IF Len(enhanced_headers) > 0 /\ enhanced_headers # original_headers
             THEN << "Improved table column names with descriptive labels" >>
             ELSE <<>>)
            \o (IF Abs(enhanced_lines - original_lines) > 5
                THEN << "Restructured document for better organization" >>
                ELSE <<>>)
    IN IF notes # <<>> THEN notes
       ELSE << "General formatting and structure improvements" >>

\* the value None where an EnhancedDocument is expected
NoDocument ==
    [is_none |-> TRUE, enhanced_content |-> <<>>, original_content |-> <<>>,
     filename |-> <<0, 0>>, enhancement_notes |-> <<>>]

\* an answer of the completion service to one call: it raises, or it
\* returns message.content (the empty text stands for None and for "")
Raises == [raises |-> TRUE, content |-> <<>>]
Returns(content) == [raises |-> FALSE, content |-> content]

\* a variant of the safety check that never rejects
has_html_comment_never(text) == FALSE

\* the safety check of _enhance_single_chunk and of
\* process_enhanced_document_async: both markers occur in the text
has_html_comment(text) == Contains(text, CommentOpen) /\ Contains(text, CommentClose)

\* Butter._enhance_single_chunk; a file name is <<unit, chunk>>, chunk 0
\* for the whole unit
enhance_single_chunk(markdown_content, filename, response) ==
    IF response.raises THEN NoDocument
    ELSE IF response.content = <<>> THEN NoDocument
    ELSE LET enhanced_content ==
                 IF has_html_comment(response.content) THEN markdown_content
                 ELSE response.content
         IN [is_none |-> FALSE,
             enhanced_content |-> enhanced_content,
             original_content |-> markdown_content,
             filename |-> filename,
             enhancement_notes |-> analyze_enhancements(markdown_content, enhanced_content)]

\* a variant of enhance_chunks that gives up at the first chunk that fails
enhance_chunks_stopping(chunks, filename, responses) ==
    [i \in 1..Len(chunks) |->
        IF \E k \in 1..(i - 1) :
              enhance_single_chunk(chunks[k], <<filename[1], k>>, responses[k]).is_none
        THEN NoDocument
        ELSE enhance_single_chunk(chunks[i], <<filename[1], i>>, responses[i])]

\* the results of _enhance_single_chunk over the chunks, None included
enhance_chunks(chunks, filename, responses) ==
    [i \in 1..Len(chunks) |->
        enhance_single_chunk(chunks[i], <<filename[1], i>>, responses[i])]

RECURSIVE merged_notes(_)
merged_notes(enhanced_chunks) ==
    IF enhanced_chunks = <<>> THEN <<>>
    ELSE Head(enhanced_chunks).enhancement_notes \o merged_notes(Tail(enhanced_chunks))

\* Butter.enhance_markdown_async; responses holds the answer of the
\* completion service to the call made for each chunk
enhance_markdown_async(markdown_content, filename, max_tokens, responses) ==
    LET chunks == chunk_content(markdown_content, max_tokens)
    IN IF Len(chunks) = 1
       THEN enhance_single_chunk(chunks[1], filename, responses[1])
       ELSE LET all == enhance_chunks(chunks, filename, responses)
                enhanced_chunks == SelectSeq(all, LAMBDA d : ~d.is_none)
            IN IF enhanced_chunks = <<>> THEN NoDocument
               ELSE [is_none |-> FALSE,
                     enhanced_content |->
                         Join([i \in 1..Len(enhanced_chunks) |->
                                  enhanced_chunks[i].enhanced_content], MergeSep),
                     original_content |-> markdown_content,
                     filename |-> filename,
                     enhancement_notes |-> merged_notes(enhanced_chunks)]

(***************************************************************************)
(* Jelly: the Extract unit processor                                       *)
(***************************************************************************)
\* the answers of the completion service to an Extract call that the model
\* distinguishes, as the text of message.content
EmptyText == ""
MalformedJson == "{"
ArrayJson == "[]"
EmptyObjectJson == "{}"
FullObjectJson == "{\"title\": \"T\", \"keywords\": [\"k\"], \"tables\": [{\"title\": \"Tab\"}]}"
NestedKeywordsJson == "{\"keywords\": [[\"k\"]]}"

\* json.loads on those texts: decode_error stands for json.JSONDecodeError;
\* a keyword is hashable unless it is itself a list
json_loads(text) ==
    CASE text = ArrayJson ->
            [decode_error |-> FALSE, is_object |-> FALSE, has_title |-> FALSE,
             title |-> "", keywords |-> <<>>, tables |-> <<>>]
      [] text = EmptyObjectJson ->
            [decode_error |-> FALSE, is_object |-> TRUE, has_title |-> FALSE,
             title |-> "", keywords |-> <<>>, tables |-> <<>>]
      [] text = FullObjectJson ->
            [decode_error |-> FALSE, is_object |-> TRUE, has_title |-> TRUE,
             title |-> "T",
             keywords |-> << [text |-> "k", hashable |-> TRUE] >>,
             tables |-> << [has_table_id |-> FALSE, title |-> "Tab"] >>]
      [] text = NestedKeywordsJson ->
            [decode_error |-> FALSE, is_object |-> TRUE, has_title |-> FALSE,
             title |-> "",
             keywords |-> << [text |-> "k", hashable |-> FALSE] >>,
             tables |-> <<>>]
      [] OTHER ->
            [decode_error |-> TRUE, is_object |-> FALSE, has_title |-> FALSE,
             title |-> "", keywords |-> <<>>, tables |-> <<>>]

\* the value None where a ProcessedPage is expected
NoPage ==
    [is_none |-> TRUE, page_id |-> 0, title |-> "", keywords |-> <<>>,
     tables |-> <<>>, raw_content |-> <<>>,
     processing_metadata |->
         [source_file |-> 0, tables_found |-> 0, document_id |-> "absent",
          enhancement_applied |-> "absent"]]

\* the ProcessedTable objects built from cleaned_data["tables"]
build_tables(tables) ==
    [i \in 1..Len(tables) |->
        [table_id |-> i, title |-> tables[i].title]]

\* the ProcessedPage built from the parsed answer; stem is the file name
\* without its suffix
build_page(stem, cleaned_data, raw_content, enhancement_applied) ==
    [is_none |-> FALSE,
     page_id |-> stem,
     title |-> IF cleaned_data.has_title THEN cleaned_data.title ELSE ToString(stem),
     keywords |-> cleaned_data.keywords,
     tables |-> build_tables(cleaned_data.tables),
     raw_content |-> raw_content,
     processing_metadata |->
         [source_file |-> stem, tables_found |-> Len(cleaned_data.tables),
          document_id |-> "absent", enhancement_applied |-> enhancement_applied]]

\* Jelly.process_file_async on a file holding markdown_content: every
\* failure of the call or of the parse returns None
process_file_async(stem, markdown_content, response) ==
    IF response.raises THEN NoPage
    ELSE IF response.content = EmptyText THEN NoPage
    ELSE LET cleaned_data == json_loads(response.content)
         IN IF cleaned_data.decode_error THEN NoPage
            ELSE IF ~cleaned_data.is_object THEN NoPage
            ELSE build_page(stem, cleaned_data, markdown_content, "absent")

\* Jelly.process_enhanced_document_async: the outcome is a page, or the
\* exception the method raises again
\* the text process_enhanced_document_async puts into its prompt
content_to_process(enhanced_doc) ==
    IF has_html_comment(enhanced_doc.enhanced_content)
    THEN enhanced_doc.original_content
    ELSE enhanced_doc.enhanced_content

process_enhanced_document_async(enhanced_doc, response) ==
    LET rejected == has_html_comment(enhanced_doc.enhanced_content)
        enhancement_applied == IF rejected THEN "false" ELSE "true"
        cleaned_data == json_loads(response.content)
    IN IF response.raises THEN [raised |-> "Exception", page |-> NoPage]
       ELSE IF response.content = EmptyText THEN [raised |-> "ValueError", page |-> NoPage]
       ELSE IF cleaned_data.decode_error THEN [raised |-> "JSONDecodeError", page |-> NoPage]
       ELSE IF ~cleaned_data.is_object THEN [raised |-> "AttributeError", page |-> NoPage]
       ELSE [raised |-> "none",
             page |-> build_page(enhanced_doc.filename[1], cleaned_data,
                                 content_to_process(enhanced_doc), enhancement_applied)]

(***************************************************************************)
(* The document folder: file texts, final output and metadata file         *)
(***************************************************************************)
\* the text of page unit as the parsing service returns it
PageContent(unit) == <<"p", ToString(unit)>>

\* the file save_parsed_documents writes for a page, its metadata header
\* shortened to a title, one line of details and the rule
ParsedFileText(unit, content) ==
    <<"#", " ", ToString(unit)>> \o ParagraphSep \o <<"*">> \o ParagraphSep
    \o <<"-", "-", "-">> \o ParagraphSep \o content \o <<"\n">>

\* the file _save_single_enhanced_document writes, its header shortened to
\* a title, the number of enhancement notes and the rule
EnhancedFileText(enhanced_doc) ==
    <<"#", " ", ToString(enhanced_doc.filename[1]), " ", "E">> \o ParagraphSep
    \o <<"*", ToString(Len(enhanced_doc.enhancement_notes))>> \o ParagraphSep
    \o <<"-", "-", "-">> \o ParagraphSep \o enhanced_doc.enhanced_content \o <<"\n">>

\* no document_metadata.json; corrupt is for a file that is not JSON
NoMetadata ==
    [exists |-> FALSE, corrupt |-> FALSE, page_count |-> 0, files |-> <<>>, stages_completed |-> <<>>,
     enhancement_info |-> [present |-> FALSE, files_enhanced |-> 0,
                           enhancement_summary |-> {}, skipped_pages |-> <<>>],
     cleaning_info |-> [present |-> FALSE, pages_processed |-> 0,
                        total_tables_extracted |-> 0, unique_keywords |-> 0,
                        processing_summary |-> {}, skipped_pages |-> <<>>],
     pipeline_complete |-> FALSE, final_output_ready |-> FALSE]

\* the document_metadata.json save_parsed_documents writes for n pages
ParsedMetadata(n) ==
    [NoMetadata EXCEPT !.exists = TRUE, !.page_count = n,
                       !.files = [i \in 1..n |-> i],
                       !.stages_completed = << "01_parsed_markdown" >>]

\* a document_metadata.json whose text is not JSON, and one that holds the
\* empty object
CorruptMetadata == [NoMetadata EXCEPT !.exists = TRUE, !.corrupt = TRUE]
EmptyObjectMetadata == [NoMetadata EXCEPT !.exists = TRUE]

\* json.load(f) on the metadata file raises json.JSONDecodeError
json_load_raises(metadata) == metadata.exists /\ metadata.corrupt

\* a variant of add_stage that appends without looking
add_stage_always(stages_completed, stage) == Append(stages_completed, stage)

\* metadata["stages_completed"] after "if stage not in ...: append(stage)"
add_stage(stages_completed, stage) ==
    IF \E i \in 1..Len(stages_completed) : stages_completed[i] = stage
    THEN stages_completed
    ELSE Append(stages_completed, stage)

\* a variant of update_document_metadata that marks the pipeline complete
update_document_metadata_completing(metadata, stage, enhanced_docs, skipped_pages) ==
    IF ~metadata.exists THEN metadata
    ELSE [metadata EXCEPT !.stages_completed = add_stage(@, stage),
                          !.pipeline_complete = TRUE]

\* a variant of update_document_metadata that writes a new file holding the
\* stages and the info of the stage only
update_document_metadata_rewriting(metadata, stage, enhanced_docs, skipped_pages) ==
    IF ~metadata.exists THEN metadata
    ELSE [NoMetadata EXCEPT
            !.exists = TRUE,
            !.stages_completed = add_stage(metadata.stages_completed, stage),
            !.enhancement_info =
                [present |-> TRUE,
                 files_enhanced |-> Len(enhanced_docs),
                 enhancement_summary |->
                     {enhanced_docs[i].filename[1] : i \in 1..Len(enhanced_docs)},
                 skipped_pages |-> skipped_pages]]

\* Butter._update_document_metadata: the metadata file after the call
update_document_metadata(metadata, stage, enhanced_docs, skipped_pages) ==
    IF ~metadata.exists THEN metadata
    ELSE [metadata EXCEPT
            !.stages_completed = add_stage(@, stage),
            !.enhancement_info =
                [present |-> TRUE,
                 files_enhanced |-> Len(enhanced_docs),
                 enhancement_summary |->
                     {enhanced_docs[i].filename[1] : i \in 1..Len(enhanced_docs)},
                 skipped_pages |-> skipped_pages]]

RECURSIVE all_keywords(_)
all_keywords(processed_pages) ==
    IF processed_pages = <<>> THEN <<>>
    ELSE Head(processed_pages).keywords \o all_keywords(Tail(processed_pages))

RECURSIVE total_tables(_)
total_tables(processed_pages) ==
    IF processed_pages = <<>> THEN 0
    ELSE Len(Head(processed_pages).tables) + total_tables(Tail(processed_pages))

\* len(set().union(*[page.keywords for page in processed_pages])) if
\* processed_pages else 0
unique_keywords(processed_pages) ==
    LET kws == all_keywords(processed_pages)
    IN Cardinality({kws[i].text : i \in 1..Len(kws)})

\* set().union raises TypeError when a keyword is not hashable
keywords_unhashable(processed_pages) ==
    LET kws == all_keywords(processed_pages)
    IN \E i \in 1..Len(kws) : ~kws[i].hashable

\* Jelly._update_document_metadata_cleaning: the metadata file after the call
update_document_metadata_cleaning(metadata, stage, processed_pages, skipped_pages) ==
    IF ~metadata.exists THEN metadata
    ELSE [metadata EXCEPT
            !.stages_completed = add_stage(@, stage),
            !.cleaning_info =
                [present |-> TRUE,
                 pages_processed |-> Len(processed_pages),
                 total_tables_extracted |-> total_tables(processed_pages),
                 unique_keywords |-> unique_keywords(processed_pages),
                 processing_summary |->
                     {processed_pages[i].page_id : i \in 1..Len(processed_pages)},
                 skipped_pages |-> skipped_pages],
            !.pipeline_complete = TRUE,
            !.final_output_ready = TRUE]

\* no final_output.json
NoFinalOutput ==
    [exists |-> FALSE, document_id |-> "unknown", total_pages |-> 0,
     total_tables |-> 0, total_keywords |-> 0, pages |-> <<>>]

\* the final_output.json _save_final_combined_output writes
final_combined_output(processed_pages) ==
    [exists |-> TRUE,
     document_id |-> IF processed_pages = <<>> THEN "unknown"
                     ELSE IF processed_pages[1].processing_metadata.document_id = "absent"
                          THEN "unknown"
                          ELSE processed_pages[1].processing_metadata.document_id,
     total_pages |-> Len(processed_pages),
     total_tables |-> total_tables(processed_pages),
     total_keywords |-> unique_keywords(processed_pages),
     pages |-> processed_pages]

\* the page after _save_single_processed_page has added the document id to
\* its processing_metadata
with_document_id(processed_page) ==
    [processed_page EXCEPT !.processing_metadata.document_id = "doc"]

\* the skip records of the two stage runners (the timestamp left out)
SkipRecord(unit, error) == [filename |-> unit, error |-> error]

(***************************************************************************)
(* State                                                                   *)
(***************************************************************************)
VARIABLES
    \* the chunker called on its own: where the caller is, its two
    \* arguments and the value returned
    chk_pc, chk_max_tokens, chk_chunks, chk_content,
    \* the chunker followed turn by turn: the paragraphs its loop has not
    \* reached yet and its locals
    chk_todo, chk_state,
    \* a unit processor called on its own: where the caller is, the text and
    \* budget given to Butter.process, the answers of the completion service
    \* to its calls, what _enhance_single_chunk returned for each chunk, the
    \* value Butter.process returned, the EnhancedDocument handed to
    \* Jelly.process_enhanced_document and the outcome of that call, and the
    \* texts sent to the completion service, call by call
    enh_pc, enh_content, enh_max_tokens, enh_answers, enh_chunk_docs, enh_doc,
    enh_input_doc, enh_outcome, enh_calls,
    \* the pipeline: where the caller is and how many operations it has
    \* started; the folders of the document folder, the files of its three
    \* stage folders, final_output.json and document_metadata.json; the
    \* locals of the stage runner that is running; the answers the completion
    \* service gave for each unit during the operation; and the outcome of the
    \* last operation
    pc, ops, dirs, parsed, enhanced, cleaned, final_output, metadata,
    md_files, idx, enhanced_docs, processed_pages, skipped_pages,
    enhanced_doc, processed_page, replies, result,
    \* the command line program: where main is; what it was started with
    \* (arguments, environment, and what the services would answer); the
    \* state of the orchestrator and the stages it has started; the exception
    \* in flight in Sandwich.process; the seconds since pipeline_start; the
    \* dictionary Sandwich.process returned; and the exit code of the process
    cli_pc, cli_env, sw_state, sw_started, sw_exception, sw_elapsed, sw_summary,
    cli_exit,
    \* Toast.convert_table called on its own: where the caller is, the table
    \* it passes and the table returned
    toast_pc, toast_table, toast_result

enh_vars == <<enh_pc, enh_content, enh_max_tokens, enh_answers, enh_chunk_docs,
              enh_doc, enh_input_doc, enh_outcome, enh_calls>>
fs_vars == <<dirs, parsed, enhanced, cleaned, final_output, metadata>>
local_vars == <<md_files, idx, enhanced_docs, processed_pages, skipped_pages,
                enhanced_doc, processed_page>>
pipe_vars == <<pc, ops, fs_vars, local_vars, replies, result>>
cli_vars == <<cli_pc, cli_env, sw_state, sw_started, sw_exception, sw_elapsed,
              sw_summary, cli_exit>>
toast_vars == <<toast_pc, toast_table, toast_result>>
vars == <<chk_pc, chk_max_tokens, chk_chunks, chk_content, chk_todo, chk_state,
          enh_vars, pipe_vars,
          cli_vars, toast_vars>>

\* the values of the variables of a harness that is not running
ChunkParked ==
    /\ chk_pc = "off" /\ chk_max_tokens = 0 /\ chk_chunks = <<>> /\ chk_content = <<>>
    /\ chk_todo = <<>> /\ chk_state = StartOfWalk
EnhanceParked ==
    /\ enh_pc = "off" /\ enh_content = <<>> /\ enh_max_tokens = 0
    /\ enh_answers = <<>> /\ enh_chunk_docs = <<>> /\ enh_doc = NoDocument
    /\ enh_input_doc = NoDocument
    /\ enh_outcome = [raised |-> "none", page |-> NoPage]
    /\ enh_calls = <<>>
\* no exception in flight, no dictionary returned, no arguments
NoException == [type |-> "none", message |-> "none"]
NoSummary ==
    [returned |-> FALSE, status |-> "none", document_folder |-> "none",
     pdf_source |-> "none", total_processing_time_seconds |-> 0,
     error_type |-> "none", error_message |-> "none"]
NoEnvironment ==
    [pdf_exists |-> FALSE, openai_key |-> FALSE, premium |-> FALSE,
     skip_butter |-> FALSE, services |-> "none"]
CliParked ==
    /\ cli_pc = "off" /\ cli_env = NoEnvironment /\ sw_state = "NotStarted"
    /\ sw_started = <<>> /\ sw_exception = NoException /\ sw_elapsed = 0
    /\ sw_summary = NoSummary /\ cli_exit = -1
\* the value None where a table is expected
NoTable ==
    [has_columns |-> FALSE, has_rows |-> FALSE, columns |-> <<>>, rows |-> <<>>,
     title |-> "none"]
ToastParked == toast_pc = "off" /\ toast_table = NoTable /\ toast_result = NoTable
NoResult == [op |-> "none", status |-> "none", error |-> "none", count |-> 0]
PipelineParked ==
    /\ pc = "off" /\ ops = 0 /\ dirs = {}
    /\ parsed = <<>> /\ enhanced = <<>> /\ cleaned = <<>>
    /\ final_output = NoFinalOutput /\ metadata = NoMetadata
    /\ md_files = <<>> /\ idx = 0 /\ enhanced_docs = <<>> /\ processed_pages = <<>>
    /\ skipped_pages = <<>> /\ enhanced_doc = NoDocument /\ processed_page = NoPage
    /\ replies = <<>> /\ result = NoResult

(***************************************************************************)
(* The chunker called on its own, as src/test_chunking.py calls it         *)
(***************************************************************************)
chk_vars == <<chk_pc, chk_max_tokens, chk_chunks, chk_content, chk_todo, chk_state>>

\* every string over Alphabet of length n
Alphabet == {"a", " ", ".", "\n", "|"}
Strings(n) == UNION {[1..k -> Alphabet] : k \in 0..n}

\* larger building blocks: table rows, HTML tables, separators, words
PipeRow == <<"|", "a", ".", " ", "b", "|">>
HtmlTable == TableOpen \o <<">", "a", ".", " ", "b">> \o TableClose
HtmlTableBlankLine == TableOpen \o <<">", "\n", "\n">> \o TableClose
Blocks == {PipeRow, HtmlTable, HtmlTableBlankLine, ParagraphSep, LineSep, <<"w">>, <<" ">>}
ShortBlocks == {PipeRow, ParagraphSep, <<"w">>, <<" ">>}

RECURSIVE Concat(_)
Concat(parts) == IF parts = <<>> THEN <<>> ELSE Head(parts) \o Concat(Tail(parts))

BlockTexts(blocks, n) == {Concat(bs) : bs \in UNION {[1..k -> blocks] : k \in 0..n}}

\* a paragraph of LongLen letters
Filler == [i \in 1..LongLen |-> "x"]

\* the (content, max_tokens) pairs the chunker is called with
ChunkInputs ==
    (Strings(MaxLen) \X {499, 500, 501})
    \cup (BlockTexts(Blocks, MaxBlocks) \X {501, 502, 503, 504})
    \cup ({t \o ParagraphSep \o Filler : t \in BlockTexts(ShortBlocks, MaxBlocks)}
          \X {1000, 1001})

InitChunk ==
    /\ chk_pc = "call"
    /\ chk_chunks = <<>>
    /\ chk_todo = <<>> /\ chk_state = StartOfWalk
    /\ EnhanceParked
    /\ PipelineParked
    /\ CliParked
    /\ ToastParked
    /\ \E in \in ChunkInputs : chk_content = in[1] /\ chk_max_tokens = in[2]

\* chunks = butter._chunk_content(content, max_tokens)
ChunkCall ==
    /\ chk_pc = "call"
    /\ chk_chunks' = chunk_content(chk_content, chk_max_tokens)
    /\ chk_pc' = "returned"
    /\ UNCHANGED <<chk_content, chk_max_tokens, chk_todo, chk_state>>
    /\ UNCHANGED <<enh_vars, pipe_vars, cli_vars, toast_vars>>

NextChunk == ChunkCall

SpecChunk == InitChunk /\ [][NextChunk]_vars

(***************************************************************************)
(* The chunker followed turn by turn through its paragraph loop            *)
(***************************************************************************)
\* a variant of loop_done under which the loop is never over
loop_done_never(todo) == FALSE

\* "for paragraph in paragraphs" has no paragraph left
loop_done(todo) == todo = <<>>

\* the (content, max_tokens) pairs the chunker is followed on: every short
\* text under a budget below the prompt overhead, block texts under the
\* overhead itself and just above it, a long paragraph after a short one
\* under a budget that holds the short one only
LoopInputs ==
    (Strings(MaxLen) \X {499})
    \cup (BlockTexts(Blocks, MaxBlocks) \X {500, 503})
    \cup ({t \o ParagraphSep \o Filler : t \in ShortBlocks} \X {1000})

InitChunkLoop ==
    /\ chk_pc = "call"
    /\ chk_chunks = <<>>
    /\ chk_todo = <<>> /\ chk_state = StartOfWalk
    /\ EnhanceParked
    /\ PipelineParked
    /\ CliParked
    /\ ToastParked
    /\ \E in \in LoopInputs : chk_content = in[1] /\ chk_max_tokens = in[2]

\* _chunk_content up to its loop: the early return for a text within the
\* budget, else the split into paragraphs
ChunkEnter ==
    /\ chk_pc = "call"
    /\ IF estimate_tokens(chk_content) <= chk_max_tokens
       THEN /\ chk_chunks' = << chk_content >>
            /\ chk_pc' = "returned"
            /\ UNCHANGED <<chk_todo, chk_state>>
       ELSE /\ chk_todo' = Split(chk_content, ParagraphSep)
            /\ chk_state' = StartOfWalk
            /\ chk_pc' = "loop"
            /\ UNCHANGED chk_chunks
    /\ UNCHANGED <<chk_content, chk_max_tokens>>
    /\ UNCHANGED <<enh_vars, pipe_vars, cli_vars, toast_vars>>

\* one turn of the paragraph loop, its sentence loop included
ChunkParagraph ==
    /\ chk_pc = "loop" /\ chk_todo # <<>>
    /\ chk_state' = paragraph_step(chk_state, Head(chk_todo), chk_max_tokens,
                                   detect_table_boundaries(chk_content))
    /\ chk_todo' = Tail(chk_todo)
    /\ UNCHANGED <<chk_pc, chk_chunks, chk_content, chk_max_tokens>>
    /\ UNCHANGED <<enh_vars, pipe_vars, cli_vars, toast_vars>>

\* after the loop: the final chunk and the return
ChunkLeave ==
    /\ chk_pc = "loop" /\ loop_done(chk_todo)
    /\ chk_chunks' = flush_chunk(chk_state.chunks, chk_state.current_chunk)
    /\ chk_pc' = "returned"
    /\ UNCHANGED <<chk_todo, chk_state, chk_content, chk_max_tokens>>
    /\ UNCHANGED <<enh_vars, pipe_vars, cli_vars, toast_vars>>

NextChunkLoop == ChunkEnter \/ ChunkParagraph \/ ChunkLeave

\* what every step of a call does to the position and to the paragraphs
\* left: out of the prologue, on to the next paragraph, or out of the loop
ChunkAdvance ==
    \/ /\ chk_pc = "call"
       /\ chk_pc' \in {"loop", "returned"}
       /\ chk_todo' \in {chk_todo, Split(chk_content, ParagraphSep)}
    \/ /\ chk_pc = "loop" /\ chk_todo # <<>>
       /\ chk_todo' = Tail(chk_todo)
       /\ UNCHANGED chk_pc
    \/ /\ chk_pc = "loop" /\ loop_done(chk_todo)
       /\ chk_pc' = "returned"
       /\ UNCHANGED chk_todo

\* a call that has started goes on: the interpreter takes the next step
\* whenever there is one
SpecChunkLoop ==
    InitChunkLoop /\ [][NextChunkLoop]_vars /\ WF_<<chk_pc, chk_todo>>(ChunkAdvance)

(***************************************************************************)
(* The unit processors called on their own: Butter.process on a text, then *)
(* Jelly.process_enhanced_document on an EnhancedDocument                  *)
(***************************************************************************)
\* the answers of the completion service to an Enhance call
AnswerKinds ==
    {"raises", "empty", "improved", "verbatim", "commented", "open_only", "reversed"}

\* the answer of each kind to a call made for chunk: an exception, an empty
\* message, a rewritten text, the text of the chunk as it was sent, a text
\* cut short by an HTML comment, a text with the opening marker alone, a
\* text with the closing marker first
Answer(kind, chunk) ==
    CASE kind = "raises" -> Raises
      [] kind = "empty" -> Returns(<<>>)
      [] kind = "improved" -> Returns(<<"#", " ">> \o chunk)
      [] kind = "verbatim" -> Returns(chunk)
      [] kind = "commented" -> Returns(CommentOpen \o <<"c", "u", "t">> \o CommentClose)
      [] kind = "open_only" -> Returns(chunk \o CommentOpen)
      [] kind = "reversed" -> Returns(CommentClose \o chunk \o CommentOpen)

\* the texts Butter.process is called with: plain, with whitespace at both
\* ends, of two and of three paragraphs, holding an HTML comment itself,
\* and blank
EnhanceContents ==
    { <<"a", "b">>,
      <<" ", "a", "\n">>,
      <<"a">> \o ParagraphSep \o <<"b">>,
      <<"a">> \o ParagraphSep \o <<"b">> \o ParagraphSep \o <<"c">>,
      CommentOpen \o <<"n">> \o CommentClose,
      <<" ", " ", " ", " ">> }

\* the budgets: Butter's default, and the prompt overhead itself, under
\* which every text of four characters or more is chunked
EnhanceBudgets == {DefaultMaxTokens, PromptOverhead}

\* the answers to the Extract call of process_enhanced_document
RaisesExtract == [raises |-> TRUE, content |-> EmptyText]
ExtractAnswers ==
    {RaisesExtract}
    \cup {Returns(t) : t \in {EmptyText, MalformedJson, ArrayJson, EmptyObjectJson,
                              FullObjectJson, NestedKeywordsJson}}

InitEnhance ==
    /\ enh_pc = "call"
    /\ enh_content \in EnhanceContents
    /\ enh_max_tokens \in EnhanceBudgets
    /\ enh_answers = <<>> /\ enh_chunk_docs = <<>> /\ enh_doc = NoDocument
    /\ enh_input_doc = NoDocument
    /\ enh_outcome = [raised |-> "none", page |-> NoPage]
    /\ enh_calls = <<>>
    /\ ChunkParked
    /\ PipelineParked
    /\ CliParked
    /\ ToastParked

\* enhanced_doc = butter.process(markdown_content, filename)
ButterProcess ==
    /\ enh_pc = "call"
    /\ LET chunks == chunk_content(enh_content, enh_max_tokens)
       IN \E kinds \in [1..Len(chunks) -> AnswerKinds] :
            LET answers == [i \in 1..Len(chunks) |-> Answer(kinds[i], chunks[i])]
            IN /\ enh_answers' = answers
               /\ enh_chunk_docs' =
                     IF Len(chunks) = 1
                     THEN << enhance_single_chunk(chunks[1], <<1, 0>>, answers[1]) >>
                     ELSE enhance_chunks(chunks, <<1, 0>>, answers)
               /\ enh_doc' = enhance_markdown_async(enh_content, <<1, 0>>,
                                                    enh_max_tokens, answers)
               /\ enh_calls' = [i \in 1..Len(chunks) |->
                                   [stage |-> "enhance", content |-> chunks[i]]]
    /\ enh_pc' = "enhanced"
    /\ UNCHANGED <<enh_content, enh_max_tokens, enh_input_doc, enh_outcome>>
    /\ UNCHANGED <<chk_vars, pipe_vars, cli_vars, toast_vars>>

\* the EnhancedDocument objects handed to Jelly: the one Butter returned,
\* and documents of other producers, whose enhanced text passed no check
InputDocuments ==
    (IF enh_doc.is_none THEN {} ELSE {enh_doc})
    \cup {[is_none |-> FALSE, enhanced_content |-> Answer(k, enh_content).content,
           original_content |-> enh_content, filename |-> <<1, 0>>,
           enhancement_notes |-> << "General formatting and structure improvements" >>]
          : k \in {"improved", "commented", "open_only"}}

\* processed_page = jelly.process_enhanced_document(enhanced_doc)
JellyProcessEnhancedDocument ==
    /\ enh_pc = "enhanced"
    /\ \E d \in InputDocuments : \E response \in ExtractAnswers :
          /\ enh_input_doc' = d
          /\ enh_outcome' = process_enhanced_document_async(d, response)
          /\ enh_calls' = Append(enh_calls, [stage |-> "extract",
                                             content |-> content_to_process(d)])
    /\ enh_pc' = "extracted"
    /\ UNCHANGED <<enh_content, enh_max_tokens, enh_answers, enh_chunk_docs, enh_doc>>
    /\ UNCHANGED <<chk_vars, pipe_vars, cli_vars, toast_vars>>

NextEnhance == ButterProcess \/ JellyProcessEnhancedDocument

SpecEnhance == InitEnhance /\ [][NextEnhance]_vars

(***************************************************************************)
(* The pipeline: a caller that runs Peanut.save_parsed_documents, the two  *)
(* stage runners and Sandwich.process on one document folder               *)
(***************************************************************************)
Units == 1..MaxUnits

\* the orders in which Path.glob may list a set of files
ListingOrders(S) ==
    {f \in [1..Cardinality(S) -> S] : \A i, j \in 1..Cardinality(S) : i # j => f[i] # f[j]}

\* sorted(md_files): file names are compared as their page numbers
Sorted(S) ==
    CHOOSE f \in ListingOrders(S) : \A i, j \in 1..Cardinality(S) : i < j => f[i] < f[j]

\* the answers of the completion service during a stage run
EnhanceKinds == {"raises", "empty", "improved", "commented"}
ExtractKinds == {"raises", "empty", "malformed", "array", "object", "nested_keywords"}

ExtractAnswer(kind) ==
    CASE kind = "raises" -> RaisesExtract
      [] kind = "empty" -> Returns(EmptyText)
      [] kind = "malformed" -> Returns(MalformedJson)
      [] kind = "array" -> Returns(ArrayJson)
      [] kind = "object" -> Returns(FullObjectJson)
      [] kind = "nested_keywords" -> Returns(NestedKeywordsJson)

\* a variant of save_single_enhanced_document that keeps the document for
\* a write at the end of the stage
save_single_enhanced_document_batched(files, doc) == files

\* Butter._save_single_enhanced_document: the files of 02_enhanced_markdown
\* after the write of the file of doc
save_single_enhanced_document(files, doc) ==
    (doc.filename[1] :> EnhancedFileText(doc)) @@ files

\* a variant of enhanced_folder that names the folder of the parsed files
enhanced_folder_parsed == "01_parsed_markdown"

\* enhanced_folder = doc_folder / "02_enhanced_markdown", the folder the
\* stage runner creates and hands to every save
enhanced_folder == "02_enhanced_markdown"

\* the files of folder after the file of doc is written into output_folder
files_after_save(files, folder, output_folder, doc) ==
    IF folder = output_folder THEN save_single_enhanced_document(files, doc)
    ELSE files

\* a variant of path_exists that finds every folder
path_exists_always(folders, folder) == TRUE

\* Path.exists() of a folder of the document folder
path_exists(folders, folder) == folder \in folders

\* a variant of continue_loop that leaves the loop, as "break" would
break_loop(i, files) == Len(files) + 1

\* "continue" after a skip record: the loop goes on with the next file
continue_loop(i, files) == i + 1

Init ==
    /\ pc = "idle" /\ ops = 0 /\ dirs = {}
    /\ parsed = <<>> /\ enhanced = <<>> /\ cleaned = <<>>
    /\ final_output = NoFinalOutput /\ metadata = NoMetadata
    /\ md_files = <<>> /\ idx = 0 /\ enhanced_docs = <<>> /\ processed_pages = <<>>
    /\ skipped_pages = <<>> /\ enhanced_doc = NoDocument /\ processed_page = NoPage
    /\ replies = <<>> /\ result = NoResult
    /\ ChunkParked
    /\ EnhanceParked
    /\ CliParked
    /\ ToastParked

\* the locals of a stage runner at the start of an operation
FreshLocals ==
    /\ md_files' = <<>> /\ idx' = 0 /\ enhanced_docs' = <<>> /\ processed_pages' = <<>>
    /\ skipped_pages' = <<>> /\ enhanced_doc' = NoDocument /\ processed_page' = NoPage
    /\ replies' = <<>>

\* an operation that ends at once, raising error
RaisesAtStart(op, error) ==
    /\ result' = [op |-> op, status |-> "raised", error |-> error, count |-> 0]
    /\ pc' = "idle"
    /\ FreshLocals

\* peanut.save_parsed_documents(parsed_docs, output_dir) with n pages
SaveParsed ==
    /\ pc = "idle" /\ ops < MaxOps
    /\ ops' = ops + 1
    /\ \E n \in 0..MaxUnits :
          /\ parsed' = [unit \in DOMAIN parsed \cup 1..n |->
                           IF unit \in 1..n
                           THEN ParsedFileText(unit, PageContent(unit))
                           ELSE parsed[unit]]
          /\ metadata' = ParsedMetadata(n)
          /\ result' = [op |-> "save_parsed", status |-> "returned",
                        error |-> "none", count |-> n]
    /\ dirs' = dirs \cup {"doc", "01_parsed_markdown"}
    /\ pc' = "idle"
    /\ FreshLocals
    /\ UNCHANGED <<enhanced, cleaned, final_output>>
    /\ UNCHANGED <<chk_vars, enh_vars, cli_vars, toast_vars>>

\* Butter._process_document_folder up to its loop: the checks, the listing
\* of the parsed files in the order of glob, and the creation of the folder
ButterStart ==
    /\ pc = "idle" /\ ops < MaxOps
    /\ ops' = ops + 1
    /\ IF ~path_exists(dirs, "doc") \/ ~path_exists(dirs, "01_parsed_markdown")
       THEN RaisesAtStart("butter", "FileNotFoundError") /\ UNCHANGED dirs
       ELSE IF DOMAIN parsed = {}
       THEN RaisesAtStart("butter", "ValueError") /\ UNCHANGED dirs
       ELSE /\ dirs' = dirs \cup {enhanced_folder}
            /\ md_files' \in ListingOrders(DOMAIN parsed)
            /\ idx' = 1
            /\ enhanced_docs' = <<>> /\ skipped_pages' = <<>>
            /\ processed_pages' = <<>>
            /\ enhanced_doc' = NoDocument /\ processed_page' = NoPage
            /\ replies' = <<>>
            /\ result' = [op |-> "butter", status |-> "running",
                          error |-> "none", count |-> 0]
            /\ pc' = "butter_process"
    /\ UNCHANGED <<parsed, enhanced, cleaned, final_output, metadata>>
    /\ UNCHANGED <<chk_vars, enh_vars, cli_vars, toast_vars>>

\* one turn of the loop up to the append: process_file on the next file,
\* with the answers of the completion service to its calls; a page that
\* comes back as None is recorded as skipped
ButterProcessFile ==
    /\ pc = "butter_process" /\ idx <= Len(md_files)
    /\ LET unit == md_files[idx]
           markdown_content == parsed[unit]
           chunks == chunk_content(markdown_content, DefaultMaxTokens)
       IN \E kinds \in [1..Len(chunks) -> EnhanceKinds] :
            LET answers == [i \in 1..Len(chunks) |-> Answer(kinds[i], chunks[i])]
                doc == enhance_markdown_async(markdown_content, <<unit, 0>>,
                                              DefaultMaxTokens, answers)
            IN /\ replies' = (unit :> kinds) @@ replies
               /\ enhanced_doc' = doc
               /\ IF doc.is_none
                  THEN /\ skipped_pages' =
                            Append(skipped_pages,
                                   SkipRecord(unit, "Enhancement failed - page skipped"))
                       /\ idx' = continue_loop(idx, md_files)
                       /\ pc' = "butter_process"
                  ELSE /\ pc' = "butter_append"
                       /\ UNCHANGED <<skipped_pages, idx>>
    /\ UNCHANGED <<ops, fs_vars, md_files, enhanced_docs, processed_pages,
                   processed_page, result>>
    /\ UNCHANGED <<chk_vars, enh_vars, cli_vars, toast_vars>>

\* enhanced_docs.append(enhanced_doc)
ButterAppend ==
    /\ pc = "butter_append"
    /\ enhanced_docs' = Append(enhanced_docs, enhanced_doc)
    /\ pc' = "butter_save"
    /\ UNCHANGED <<ops, fs_vars, md_files, idx, processed_pages, skipped_pages,
                   enhanced_doc, processed_page, replies, result>>
    /\ UNCHANGED <<chk_vars, enh_vars, cli_vars, toast_vars>>

\* self._save_single_enhanced_document(enhanced_doc, ...), then the next turn
ButterSave ==
    /\ pc = "butter_save"
    /\ parsed' = files_after_save(parsed, "01_parsed_markdown", enhanced_folder,
                                  enhanced_doc)
    /\ enhanced' = files_after_save(enhanced, "02_enhanced_markdown", enhanced_folder,
                                    enhanced_doc)
    /\ idx' = idx + 1
    /\ pc' = "butter_process"
    /\ UNCHANGED <<ops, dirs, cleaned, final_output, metadata, md_files,
                   enhanced_docs, processed_pages, skipped_pages, enhanced_doc,
                   processed_page, replies, result>>
    /\ UNCHANGED <<chk_vars, enh_vars, cli_vars, toast_vars>>

\* after the loop: the metadata update and the return of enhanced_docs; the
\* exception json.load raises on a metadata file that is not JSON leaves
\* the stage runner
ButterFinish ==
    /\ pc = "butter_process" /\ idx > Len(md_files)
    /\ IF json_load_raises(metadata)
       THEN /\ result' = [op |-> "butter", status |-> "raised",
                          error |-> "JSONDecodeError", count |-> 0]
            /\ UNCHANGED metadata
       ELSE /\ metadata' = update_document_metadata(metadata, "enhancement",
                                                    enhanced_docs, skipped_pages)
            /\ result' = [op |-> "butter", status |-> "returned", error |-> "none",
                          count |-> Len(enhanced_docs)]
    /\ pc' = "butter_return"
    /\ UNCHANGED <<ops, dirs, parsed, enhanced, cleaned, final_output, local_vars, replies>>
    /\ UNCHANGED <<chk_vars, enh_vars, cli_vars, toast_vars>>

\* control is back in the caller, which holds the value returned; the locals
\* of the stage runner are gone
ButterReturn ==
    /\ pc = "butter_return"
    /\ pc' = "idle"
    /\ FreshLocals
    /\ UNCHANGED <<ops, fs_vars, result>>
    /\ UNCHANGED <<chk_vars, enh_vars, cli_vars, toast_vars>>

\* Jelly._process_document_folder up to its loop: the checks, the creation
\* of the folder and the sorted listing of the enhanced files
JellyStart ==
    /\ pc = "idle" /\ ops < MaxOps
    /\ ops' = ops + 1
    /\ IF ~path_exists(dirs, "doc") \/ ~path_exists(dirs, "02_enhanced_markdown")
       THEN RaisesAtStart("jelly", "FileNotFoundError") /\ UNCHANGED dirs
       ELSE IF DOMAIN enhanced = {}
       THEN /\ RaisesAtStart("jelly", "ValueError")
            /\ dirs' = dirs \cup {"03_cleaned_json"}
       ELSE /\ dirs' = dirs \cup {"03_cleaned_json"}
            /\ md_files' = Sorted(DOMAIN enhanced)
            /\ idx' = 1
            /\ processed_pages' = <<>> /\ skipped_pages' = <<>>
            /\ enhanced_docs' = <<>>
            /\ enhanced_doc' = NoDocument /\ processed_page' = NoPage
            /\ replies' = <<>>
            /\ result' = [op |-> "jelly", status |-> "running",
                          error |-> "none", count |-> 0]
            /\ pc' = "jelly_process"
    /\ UNCHANGED <<parsed, enhanced, cleaned, final_output, metadata>>
    /\ UNCHANGED <<chk_vars, enh_vars, cli_vars, toast_vars>>

\* one turn of the loop up to the append: process_file on the next file,
\* with the answer of the completion service; a page that comes back as
\* None is recorded as skipped
JellyProcessFile ==
    /\ pc = "jelly_process" /\ idx <= Len(md_files)
    /\ LET unit == md_files[idx]
       IN \E kind \in ExtractKinds :
            LET page == process_file_async(unit, enhanced[unit], ExtractAnswer(kind))
            IN /\ replies' = (unit :> << kind >>) @@ replies
               /\ processed_page' = page
               /\ IF page.is_none
                  THEN /\ skipped_pages' =
                            Append(skipped_pages,
                                   SkipRecord(unit, "Processing failed - page skipped"))
                       /\ idx' = continue_loop(idx, md_files)
                       /\ pc' = "jelly_process"
                  ELSE /\ pc' = "jelly_append"
                       /\ UNCHANGED <<skipped_pages, idx>>
    /\ UNCHANGED <<ops, fs_vars, md_files, enhanced_docs, processed_pages,
                   enhanced_doc, result>>
    /\ UNCHANGED <<chk_vars, enh_vars, cli_vars, toast_vars>>

\* processed_pages.append(processed_page)
JellyAppend ==
    /\ pc = "jelly_append"
    /\ processed_pages' = Append(processed_pages, processed_page)
    /\ pc' = "jelly_save"
    /\ UNCHANGED <<ops, fs_vars, md_files, idx, enhanced_docs, skipped_pages,
                   enhanced_doc, processed_page, replies, result>>
    /\ UNCHANGED <<chk_vars, enh_vars, cli_vars, toast_vars>>

\* self._save_single_processed_page(processed_page, ...), which writes the
\* document id into the page object the list holds too; then the next turn
JellySave ==
    /\ pc = "jelly_save"
    /\ processed_page' = with_document_id(processed_page)
    /\ processed_pages' = [processed_pages EXCEPT ![Len(processed_pages)] =
                              with_document_id(processed_page)]
    /\ cleaned' = (processed_page.page_id :> with_document_id(processed_page)) @@ cleaned
    /\ idx' = idx + 1
    /\ pc' = "jelly_process"
    /\ UNCHANGED <<ops, dirs, parsed, enhanced, final_output, metadata, md_files,
                   enhanced_docs, skipped_pages, enhanced_doc, replies, result>>
    /\ UNCHANGED <<chk_vars, enh_vars, cli_vars, toast_vars>>

\* after the loop: the final combined output, the metadata update and the
\* return of processed_pages; the union of the keywords raises TypeError,
\* before anything is written, when a keyword is not hashable; json.load
\* raises, after the final output is written, on a metadata file that is
\* not JSON
JellyFinish ==
    /\ pc = "jelly_process" /\ idx > Len(md_files)
    /\ IF keywords_unhashable(processed_pages)
       THEN /\ result' = [op |-> "jelly", status |-> "raised", error |-> "TypeError",
                          count |-> 0]
            /\ UNCHANGED <<final_output, metadata>>
       ELSE IF json_load_raises(metadata)
       THEN /\ final_output' = final_combined_output(processed_pages)
            /\ result' = [op |-> "jelly", status |-> "raised",
                          error |-> "JSONDecodeError", count |-> 0]
            /\ UNCHANGED metadata
       ELSE /\ final_output' = final_combined_output(processed_pages)
            /\ metadata' = update_document_metadata_cleaning(metadata, "cleaning",
                                                             processed_pages, skipped_pages)
            /\ result' = [op |-> "jelly", status |-> "returned", error |-> "none",
                          count |-> Len(processed_pages)]
    /\ pc' = "jelly_return"
    /\ UNCHANGED <<ops, dirs, parsed, enhanced, cleaned, local_vars, replies>>
    /\ UNCHANGED <<chk_vars, enh_vars, cli_vars, toast_vars>>

\* control is back in the caller, which holds the value returned or the
\* exception; the locals of the stage runner are gone
JellyReturn ==
    /\ pc = "jelly_return"
    /\ pc' = "idle"
    /\ FreshLocals
    /\ UNCHANGED <<ops, fs_vars, result>>
    /\ UNCHANGED <<chk_vars, enh_vars, cli_vars, toast_vars>>

\* a variant of metadata_after_failure in which the handler marks the
\* pipeline complete
metadata_after_failure_completing(m) ==
    [m EXCEPT !.exists = TRUE, !.pipeline_complete = TRUE]

\* document_metadata.json once the handler of Sandwich.process has run: the
\* handler builds the failure dictionary and writes no file
metadata_after_failure(m) == m

\* the keyword arguments Peanut.__init__ accepts
PeanutParameters == {"api_key", "use_premium"}

\* Sandwich.process(pdf_path, output_dir, skip_butter) on a PDF file of
\* pdf_pages pages: Peanut(config=self.config) raises TypeError, the first
\* statement of the try block, and the handler returns the failure summary
SandwichProcess ==
    /\ pc = "idle" /\ ops < MaxOps
    /\ ops' = ops + 1
    /\ {"config"} \ PeanutParameters # {}
    /\ \E pdf_pages \in 1..MaxUnits : \E skip_butter \in BOOLEAN :
          result' = [op |-> "sandwich", status |-> "FAILED", error |-> "TypeError",
                     count |-> pdf_pages]
    /\ metadata' = metadata_after_failure(metadata)
    /\ pc' = "idle"
    /\ FreshLocals
    /\ UNCHANGED <<dirs, parsed, enhanced, cleaned, final_output>>
    /\ UNCHANGED <<chk_vars, enh_vars, cli_vars, toast_vars>>

Next ==
    \/ SaveParsed
    \/ ButterStart \/ ButterProcessFile \/ ButterAppend \/ ButterSave
    \/ ButterFinish \/ ButterReturn
    \/ JellyStart \/ JellyProcessFile \/ JellyAppend \/ JellySave
    \/ JellyFinish \/ JellyReturn
    \/ SandwichProcess

Spec == Init /\ [][Next]_vars

(***************************************************************************)
(* The pipeline on a disk whose writes may fail: open() or write() of a    *)
(* page file raises OSError inside the try block of the loop               *)
(***************************************************************************)
\* self._save_single_enhanced_document raises: no file is written, the
\* handler adds a skip record with str(e) and the loop goes on; the
\* document stays in enhanced_docs, where the append put it
ButterSaveFails ==
    /\ pc = "butter_save"
    /\ skipped_pages' = Append(skipped_pages, SkipRecord(md_files[idx], "OSError"))
    /\ idx' = continue_loop(idx, md_files)
    /\ pc' = "butter_process"
    /\ UNCHANGED <<ops, fs_vars, md_files, enhanced_docs, processed_pages,
                   enhanced_doc, processed_page, replies, result>>
    /\ UNCHANGED <<chk_vars, enh_vars, cli_vars, toast_vars>>

\* self._save_single_processed_page raises at open(): the document id is
\* already written into the page object, which stays in processed_pages;
\* no file is written and the handler adds a skip record
JellySaveFails ==
    /\ pc = "jelly_save"
    /\ processed_page' = with_document_id(processed_page)
    /\ processed_pages' = [processed_pages EXCEPT ![Len(processed_pages)] =
                              with_document_id(processed_page)]
    /\ skipped_pages' = Append(skipped_pages, SkipRecord(md_files[idx], "OSError"))
    /\ idx' = continue_loop(idx, md_files)
    /\ pc' = "jelly_process"
    /\ UNCHANGED <<ops, fs_vars, md_files, enhanced_docs, enhanced_doc, replies, result>>
    /\ UNCHANGED <<chk_vars, enh_vars, cli_vars, toast_vars>>

NextStorage == Next \/ ButterSaveFails \/ JellySaveFails

SpecStorage == Init /\ [][NextStorage]_vars

(***************************************************************************)
(* The stage runners called on a document folder found on disk, left by    *)
(* earlier runs of the parse and enhance stages; its metadata file may be  *)
(* missing, damaged or emptied since                                       *)
(***************************************************************************)
FolderPages == 2

\* the enhanced file of a page the completion service had rewritten
FolderEnhancedFile(unit) ==
    LET content == ParsedFileText(unit, PageContent(unit))
    IN EnhancedFileText(enhance_single_chunk(content, <<unit, 0>>,
                                             Answer("improved", content)))

\* the states of document_metadata.json in a folder of n pages
FolderMetadata(n) ==
    {NoMetadata, CorruptMetadata, EmptyObjectMetadata, ParsedMetadata(n),
     update_document_metadata(ParsedMetadata(n), "enhancement", <<>>, <<>>)}

InitFolder ==
    /\ pc = "idle" /\ ops = 0
    /\ dirs = {"doc", "01_parsed_markdown", "02_enhanced_markdown"}
    /\ \E n \in 1..FolderPages :
          /\ parsed = [unit \in 1..n |-> ParsedFileText(unit, PageContent(unit))]
          /\ enhanced = [unit \in 1..n |-> FolderEnhancedFile(unit)]
          /\ metadata \in FolderMetadata(n)
    /\ cleaned = <<>> /\ final_output = NoFinalOutput
    /\ md_files = <<>> /\ idx = 0 /\ enhanced_docs = <<>> /\ processed_pages = <<>>
    /\ skipped_pages = <<>> /\ enhanced_doc = NoDocument /\ processed_page = NoPage
    /\ replies = <<>> /\ result = NoResult
    /\ ChunkParked
    /\ EnhanceParked
    /\ CliParked
    /\ ToastParked

NextFolder ==
    \/ ButterStart \/ ButterProcessFile \/ ButterAppend \/ ButterSave
    \/ ButterFinish \/ ButterReturn
    \/ JellyStart \/ JellyProcessFile \/ JellyAppend \/ JellySave
    \/ JellyFinish \/ JellyReturn

SpecFolder == InitFolder /\ [][NextFolder]_vars

(***************************************************************************)
(* The command line program: main() of sandwich.py, which builds a         *)
(* Sandwich and calls its process method once                              *)
(***************************************************************************)
\* the seconds the clock may show since pipeline_start
MaxElapsed == 2

\* what the parsing service and the completion service would answer during
\* the run: every call succeeds, the calls of some pages fail, the parse
\* fails
ServiceScenarios == {"all_succeed", "some_skipped", "parse_fails"}

\* the arguments and the environment of a run: the PDF file exists, the
\* OPENAI_API_KEY is set, --premium, --skip-butter
CliEnvironments ==
    [pdf_exists : BOOLEAN, openai_key : BOOLEAN, premium : BOOLEAN,
     skip_butter : BOOLEAN, services : ServiceScenarios]

InitCli ==
    /\ cli_pc = "main" /\ cli_env \in CliEnvironments
    /\ sw_state = "NotStarted" /\ sw_started = <<>> /\ sw_exception = NoException
    /\ sw_elapsed = 0 /\ sw_summary = NoSummary /\ cli_exit = -1
    /\ ChunkParked
    /\ EnhanceParked
    /\ PipelineParked
    /\ ToastParked

\* the exception the call Peanut(**keywords) raises before the body runs
peanut_call_error(keywords) ==
    IF keywords \subseteq PeanutParameters THEN NoException
    ELSE [type |-> "TypeError", message |-> "unexpected keyword argument"]

\* a variant of after_exception that leaves the document where it was
after_exception_resume(state) == state

\* the state of the document once an exception has reached the handler of
\* Sandwich.process
after_exception(state) == "Failed"

\* the dictionary the handler of Sandwich.process returns
failure_summary(pdf_path, elapsed, e) ==
    [returned |-> TRUE, status |-> "FAILED", document_folder |-> "PIPELINE_FAILED",
     pdf_source |-> pdf_path, total_processing_time_seconds |-> elapsed,
     error_type |-> e.type, error_message |-> e.message]

\* the exit code main gives for the dictionary Sandwich.process returned
exit_code(summary) == IF summary.status = "FAILED" THEN 1 ELSE 0

\* main up to the check of the PDF path: sys.exit(1) when it is missing
CliCheckPdf ==
    /\ cli_pc = "main"
    /\ IF cli_env.pdf_exists
       THEN cli_pc' = "construct" /\ UNCHANGED cli_exit
       ELSE cli_pc' = "exited" /\ cli_exit' = 1
    /\ UNCHANGED <<cli_env, sw_state, sw_started, sw_exception, sw_elapsed, sw_summary>>
    /\ UNCHANGED <<chk_vars, enh_vars, pipe_vars, toast_vars>>

\* sandwich = Sandwich(...): Butter.__init__ raises ValueError without an
\* API key, which the last handler of main turns into sys.exit(1)
CliConstruct ==
    /\ cli_pc = "construct"
    /\ IF cli_env.openai_key
       THEN cli_pc' = "process" /\ UNCHANGED cli_exit
       ELSE cli_pc' = "exited" /\ cli_exit' = 1
    /\ UNCHANGED <<cli_env, sw_state, sw_started, sw_exception, sw_elapsed, sw_summary>>
    /\ UNCHANGED <<chk_vars, enh_vars, pipe_vars, toast_vars>>

\* Sandwich.process up to the first statement of stage 1 that raises:
\* Peanut(config=self.config)
SandwichTry ==
    /\ cli_pc = "process"
    /\ peanut_call_error({"config"}) # NoException
    /\ sw_started' = Append(sw_started, "parse")
    /\ sw_exception' = peanut_call_error({"config"})
    /\ sw_elapsed' \in 0..MaxElapsed
    /\ cli_pc' = "handler"
    /\ UNCHANGED <<cli_env, sw_state, sw_summary, cli_exit>>
    /\ UNCHANGED <<chk_vars, enh_vars, pipe_vars, toast_vars>>

\* the handler of Sandwich.process: it returns the failure dictionary
SandwichExcept ==
    /\ cli_pc = "handler"
    /\ sw_state' = after_exception(sw_state)
    /\ sw_elapsed' \in sw_elapsed..MaxElapsed
    /\ sw_summary' = failure_summary("pdf_path", sw_elapsed', sw_exception)
    /\ sw_exception' = NoException
    /\ cli_pc' = "returned"
    /\ UNCHANGED <<cli_env, sw_started, cli_exit>>
    /\ UNCHANGED <<chk_vars, enh_vars, pipe_vars, toast_vars>>

\* main after the call: sys.exit(1) on status FAILED, else the end of main
CliExit ==
    /\ cli_pc = "returned"
    /\ cli_exit' = exit_code(sw_summary)
    /\ cli_pc' = "exited"
    /\ UNCHANGED <<cli_env, sw_state, sw_started, sw_exception, sw_elapsed, sw_summary>>
    /\ UNCHANGED <<chk_vars, enh_vars, pipe_vars, toast_vars>>

NextCli == CliCheckPdf \/ CliConstruct \/ SandwichTry \/ SandwichExcept \/ CliExit

SpecCli == InitCli /\ [][NextCli]_vars

(***************************************************************************)
(* Toast: the Reshape stage, convert_table called on a table on its own    *)
(***************************************************************************)
\* the longest columns array and the longest rows array
MaxCols == 2
MaxRows == 2

ColumnNames == {"A", "B"}
CellValues == {"1", "2"}

\* a row of a table: a JSON array of cells, or a JSON object with entries
ListRow(cells) == [kind |-> "list", cells |-> cells, entries |-> <<>>]
ObjectRow(entries) == [kind |-> "object", cells |-> <<>>, entries |-> entries]

\* len(row)
RowLen(row) ==
    IF row.kind = "list" THEN Len(row.cells) ELSE Cardinality(DOMAIN row.entries)

\* dict(zip(columns, row)) for lists of equal length: a key that occurs
\* more than once keeps the value of its last occurrence
zip_dict(columns, cells) ==
    [name \in {columns[j] : j \in 1..Len(columns)} |->
        LET last == CHOOSE j \in 1..Len(columns) :
                       /\ columns[j] = name
                       /\ \A k \in 1..Len(columns) : columns[k] = name => k <= j
        IN cells[last]]

\* one turn of the loop of Toast.convert_table
convert_row(columns, row) ==
    IF row.kind = "list" /\ RowLen(row) = Len(columns)
    THEN ObjectRow(zip_dict(columns, row.cells))
    ELSE row

\* Toast.convert_table on a dictionary
convert_table(table_data) ==
    IF ~table_data.has_columns \/ ~table_data.has_rows THEN table_data
    ELSE [table_data EXCEPT
             !.rows = [i \in 1..Len(table_data.rows) |->
                          convert_row(table_data.columns, table_data.rows[i])],
             !.has_columns = FALSE,
             !.columns = <<>>]

SeqsUpTo(S, n) == UNION {[1..k -> S] : k \in 0..n}

\* the rows tried with a columns array: arrays one cell shorter, as long
\* and one cell longer than it, and an object
RowsFor(columns) ==
    {ListRow(cells) :
        cells \in UNION {[1..k -> CellValues] :
                            k \in {n \in (Len(columns) - 1)..(Len(columns) + 1) : n >= 0}}}
    \cup {ObjectRow("A" :> "1")}

\* a table with both arrays, a table without its "columns" key and a table
\* without its "rows" key
FullTable(columns, rows) ==
    [has_columns |-> TRUE, has_rows |-> TRUE, columns |-> columns, rows |-> rows,
     title |-> "Tab"]
RowsOnly(rows) == [FullTable(<<>>, rows) EXCEPT !.has_columns = FALSE]
ColumnsOnly(columns) == [FullTable(columns, <<>>) EXCEPT !.has_rows = FALSE]

\* the tables convert_table is called with
InitToast ==
    /\ toast_pc = "call" /\ toast_result = NoTable
    /\ \E columns \in SeqsUpTo(ColumnNames, MaxCols) :
          \E rows \in SeqsUpTo(RowsFor(columns), MaxRows) :
             toast_table \in {FullTable(columns, rows), RowsOnly(rows),
                              ColumnsOnly(columns)}
    /\ ChunkParked
    /\ EnhanceParked
    /\ PipelineParked
    /\ CliParked

\* converted_table = toast.convert_table(table_data)
ToastConvert ==
    /\ toast_pc = "call"
    /\ toast_result' = convert_table(toast_table)
    /\ toast_pc' = "returned"
    /\ UNCHANGED toast_table
    /\ UNCHANGED <<chk_vars, enh_vars, pipe_vars, cli_vars>>

NextToast == ToastConvert

SpecToast == InitToast /\ [][NextToast]_vars

(***************************************************************************)
(* Properties of the chunker                                               *)
(***************************************************************************)
Returned == chk_pc = "returned"
Oversized == estimate_tokens(chk_content) > chk_max_tokens
Paragraphs == Split(chk_content, ParagraphSep)
NoParagraphTooLarge ==
    \A p \in 1..Len(Paragraphs) : estimate_tokens(Paragraphs[p]) <= chk_max_tokens

RECURSIVE SumLen(_, _, _)
\* total length of parts[1..n], each followed by a separator of length sep
SumLen(parts, n, sep) ==
    IF n = 0 THEN 0 ELSE Len(parts[n]) + sep + SumLen(parts, n - 1, sep)

\* the Python offsets [start, end) of paragraph p of the text
ParagraphRange(p) ==
    LET start == SumLen(Paragraphs, p - 1, 2)
    IN <<start, start + Len(Paragraphs[p])>>

\* the character ranges [start, end) of the detected table regions: the
\* HTML matches, and the runs of table lines from the start of their first
\* line to the end of their last
HtmlRegions == html_table_matches(chk_content, 1)
Lines == Split(chk_content, LineSep)
PipeRuns == pipe_table_runs(Lines, 1, -1)
PipeRegion(run) ==
    <<SumLen(Lines, run[1], 1), SumLen(Lines, run[2] - 1, 1) + Len(Lines[run[2]])>>
TableRegions ==
    {HtmlRegions[k] : k \in 1..Len(HtmlRegions)}
    \cup {PipeRegion(PipeRuns[k]) : k \in 1..Len(PipeRuns)}
RegionText(r) == Slice(chk_content, r[1] + 1, r[2])

\* a pipe table is well formed when each of its lines starts and ends with |
WellFormedRun(run) ==
    \A i \in (run[1] + 1)..run[2] :
        StartsWith(Lines[i], Pipe) /\ EndsWith(Lines[i], Pipe)
WellFormedTables == \A k \in 1..Len(PipeRuns) : WellFormedRun(PipeRuns[k])

\* region r lies in paragraph p
InParagraph(r, p) ==
    ParagraphRange(p)[1] <= r[1] /\ r[2] <= ParagraphRange(p)[2]

\* region r is kept whole by the chunks: no chunk boundary falls inside it
\* (the whitespace at its two ends, which strip() may remove, aside)
KeptWhole(r) ==
    \E k \in 1..Len(chk_chunks) : Contains(chk_chunks[k], Strip(RegionText(r)))

\* the chunks are pieces of the text, in the order of the text
RECURSIVE InOrder(_, _, _)
InOrder(chunks, content, from) ==
    \/ chunks = <<>>
    \/ LET at == Find(content, Head(chunks), from)
       IN at # 0 /\ InOrder(Tail(chunks), content, at + Len(Head(chunks)))

\* the paragraphs a sequence of chunks holds, in order
RECURSIVE ParagraphsOf(_)
ParagraphsOf(chunks) ==
    IF chunks = <<>> THEN <<>>
    ELSE Split(Head(chunks), ParagraphSep) \o ParagraphsOf(Tail(chunks))

\* the paragraphs that are not blank, each stripped
RECURSIVE StrippedNonBlank(_)
StrippedNonBlank(paras) ==
    IF paras = <<>> THEN <<>>
    ELSE IF Strip(Head(paras)) = <<>> THEN StrippedNonBlank(Tail(paras))
    ELSE << Strip(Head(paras)) >> \o StrippedNonBlank(Tail(paras))

\* C4: when estimate_tokens(text) <= max_tokens, the chunker returns exactly
\* one chunk and that chunk is the text, unchanged
C4_NoChunkNeeded ==
    (Returned /\ ~Oversized) => chk_chunks = << chk_content >>

\* C4 witness: a text within the budget that stripping or splitting would
\* change has been returned
C4_Witness ==
    /\ Returned /\ ~Oversized
    /\ Strip(chk_content) # chk_content
    /\ Len(Paragraphs) >= 2
    /\ estimate_tokens(chk_content) = chk_max_tokens

\* C5: the chunker returns one or more chunks, in the order of the text
\* (stated for the budgets that leave room beside the prompt overhead)
C5_AtLeastOneChunkInOrder ==
    (Returned /\ chk_max_tokens >= PromptOverhead) =>
        (Len(chk_chunks) >= 1 /\ InOrder(chk_chunks, chk_content, 1))

\* C6: a text with exactly one well-formed table that lies inside one
\* paragraph, and a budget that holds that paragraph: no chunk boundary falls
\* inside the table
C6_TableProtection ==
    Returned =>
        \A r \in TableRegions : \A p \in 1..Len(Paragraphs) :
            (/\ Cardinality(TableRegions) = 1
             /\ Len(detect_table_boundaries(chk_content)) = 1
             /\ WellFormedTables
             /\ InParagraph(r, p)
             /\ estimate_tokens(Paragraphs[p]) <= chk_max_tokens)
            => KeptWhole(r)

\* C6 witness: a table with a sentence break inside it was kept whole while
\* the text around it was split into several chunks
C6_Witness ==
    /\ Returned /\ Oversized /\ Len(chk_chunks) >= 2
    /\ Len(detect_table_boundaries(chk_content)) = 1
    /\ WellFormedTables
    /\ \E r \in TableRegions : \E p \in 1..Len(Paragraphs) :
          /\ InParagraph(r, p)
          /\ estimate_tokens(Paragraphs[p]) <= chk_max_tokens
          /\ Contains(RegionText(r), SentenceSep)
          /\ KeptWhole(r)

\* C7: unless the sentence-level fallback is taken (a paragraph alone
\* exceeds the budget), no chunk starts or ends inside a detected table region
C7_NoBoundaryInsideTable ==
    (Returned /\ NoParagraphTooLarge) => \A r \in TableRegions : KeptWhole(r)

\* C8: every chunk of an oversized text is within the token budget
\* (stated for the budgets that leave room beside the prompt overhead)
C8_ChunksTokenBounded ==
    (Returned /\ Oversized /\ chk_max_tokens >= PromptOverhead) =>
        \A k \in 1..Len(chk_chunks) : estimate_tokens(chk_chunks[k]) <= chk_max_tokens

\* C9 as stated: when no paragraph exceeds the budget, every paragraph of
\* the text appears whole in exactly one chunk, in the original order
C9_ParagraphsWhole ==
    (Returned /\ NoParagraphTooLarge) => ParagraphsOf(chk_chunks) = Paragraphs

\* C9 amended: when no paragraph exceeds the budget, the paragraphs of the
\* text that are not blank appear in the chunks exactly once and in the
\* original order, each whole up to leading and trailing whitespace
C9_ParagraphsUpToWhitespace ==
    (Returned /\ NoParagraphTooLarge) =>
        StrippedNonBlank(ParagraphsOf(chk_chunks)) = StrippedNonBlank(Paragraphs)

\* C9 witness: an oversized text was split between paragraphs, and one chunk
\* holds two paragraphs that were joined again
C9_Witness ==
    /\ Returned /\ Oversized /\ NoParagraphTooLarge
    /\ Len(chk_chunks) >= 2
    /\ \E k \in 1..Len(chk_chunks) :
          Len(StrippedNonBlank(Split(chk_chunks[k], ParagraphSep))) >= 2

(***************************************************************************)
(* Properties of the unit processors                                       *)
(***************************************************************************)
\* the text holds the corruption sentinel: an opening comment marker with
\* a closing marker after it
ContainsSentinel(text) ==
    LET open == Find(text, CommentOpen, 1)
    IN open # 0 /\ Find(text, CommentClose, open + Len(CommentOpen)) # 0

\* the chunks Butter.process made its calls for
EnhanceChunks == chunk_content(enh_content, enh_max_tokens)

\* the completion service answered call i with a text holding the sentinel
SentinelAnswer(i) ==
    ~enh_answers[i].raises /\ ContainsSentinel(enh_answers[i].content)

AcceptedAnswer(answer) ==
    ~answer.raises /\ answer.content # <<>> /\ ~has_html_comment(answer.content)

\* C11: a result whose enhancement was replaced by the pre-stage text is
\* marked: the document Butter.process returns after a rejection differs
\* from every document it returns for an accepted answer to the same call,
\* and the page Jelly builds says enhancement_applied false exactly when it
\* rejected the enhanced text
C11_RejectionMarked ==
    /\ (/\ enh_pc \in {"enhanced", "extracted"}
        /\ Len(enh_answers) = 1 /\ SentinelAnswer(1))
       => \A kind \in AnswerKinds :
             LET answer == Answer(kind, EnhanceChunks[1])
             IN AcceptedAnswer(answer) =>
                   enhance_single_chunk(EnhanceChunks[1], <<1, 0>>, answer) # enh_doc
    /\ (enh_pc = "extracted" /\ enh_outcome.raised = "none")
       => (enh_outcome.page.processing_metadata.enhancement_applied = "false"
           <=> has_html_comment(enh_input_doc.enhanced_content))

(***************************************************************************)
(* Properties of the stage runners                                         *)
(***************************************************************************)
\* a stage runner has done all its work and is about to hand its result,
\* or its exception, to the caller
StageReturned == pc \in {"butter_return", "jelly_return"}

\* the units the stage runner listed, and those it has made calls for
Listed == {md_files[i] : i \in 1..Len(md_files)}
Called == DOMAIN replies

\* every answer given for the unit was of one of the kinds
AllKinds(unit, kinds) ==
    \A i \in 1..Len(replies[unit]) : replies[unit][i] \in kinds

\* a call that fails: an exception, an empty answer, an answer that is not
\* JSON; a call that succeeds: a text, a JSON object of the expected schema
CallFailureKinds == {"raises", "empty", "malformed"}
CallSuccessKinds == {"improved", "commented", "object"}

\* the failures of a unit: an exception from the completion call, an empty
\* response, a response that does not parse as the expected schema
UnitFailureKinds == {"raises", "empty", "malformed", "array", "nested_keywords"}

\* what the unit processor makes of a unit on its own, given the answers
\* the completion service gave for it
EnhancedAlone(unit) ==
    LET chunks == chunk_content(parsed[unit], DefaultMaxTokens)
        answers == [i \in 1..Len(chunks) |-> Answer(replies[unit][i], chunks[i])]
    IN enhance_markdown_async(parsed[unit], <<unit, 0>>, DefaultMaxTokens, answers)
ExtractedAlone(unit) ==
    with_document_id(process_file_async(unit, enhanced[unit],
                                        ExtractAnswer(replies[unit][1])))

\* the listing with unit k removed
Without(files, k) == SelectSeq(files, LAMBDA u : u # k)

InSkipList(unit) ==
    \E i \in 1..Len(skipped_pages) : skipped_pages[i].filename = unit
InSuccessList(unit) ==
    \/ \E i \in 1..Len(enhanced_docs) : enhanced_docs[i].filename[1] = unit
    \/ \E i \in 1..Len(processed_pages) : processed_pages[i].page_id = unit

\* C1: when a stage runner returns from a run over N units in which the
\* calls of exactly one unit k failed and the calls of every other unit
\* succeeded, it returns N-1 successes, its skip list is one record naming
\* k, and the success list and the files written are those of the other
\* units processed on their own, in the order of the listing without k
C1_SkipIsolation ==
    (StageReturned /\ result.status = "returned") =>
        \A k \in Listed :
            (/\ k \in Called /\ AllKinds(k, CallFailureKinds)
             /\ \A u \in Called \ {k} : AllKinds(u, CallSuccessKinds))
            => LET others == Without(md_files, k)
               IN /\ result.count = Len(md_files) - 1
                  /\ Len(skipped_pages) = 1 /\ skipped_pages[1].filename = k
                  /\ pc = "butter_return" =>
                        /\ enhanced_docs =
                              [i \in 1..Len(others) |-> EnhancedAlone(others[i])]
                        /\ \A i \in 1..Len(others) :
                              enhanced[others[i]] =
                                  EnhancedFileText(EnhancedAlone(others[i]))
                  /\ pc = "jelly_return" =>
                        /\ processed_pages =
                              [i \in 1..Len(others) |-> ExtractedAlone(others[i])]
                        /\ \A i \in 1..Len(others) :
                              cleaned[others[i]] = ExtractedAlone(others[i])
                        /\ final_output.pages = processed_pages

\* C1 witness: the Enhance stage returned from a run over three units, listed
\* out of order, in which the call of the second unit listed raised and the
\* other two calls succeeded
C1_Witness ==
    /\ pc = "butter_return" /\ result.status = "returned"
    /\ Len(md_files) = 3 /\ md_files # Sorted(Listed)
    /\ Called = Listed
    /\ replies[md_files[2]] = << "raises" >>
    /\ \A u \in Listed \ {md_files[2]} : AllKinds(u, CallSuccessKinds)
    /\ result.count = 2
    /\ Len(skipped_pages) = 1 /\ skipped_pages[1].filename = md_files[2]

\* C2: whatever the failures of the units (an exception from the completion
\* call, an empty response, a response that does not parse), the stage
\* runner does not raise once it has listed its units, every unit listed is
\* processed, and a unit all of whose calls failed is in the skip list and
\* not in the success list
C2_UnitErrorContainment ==
    StageReturned =>
        /\ result.status = "returned"
        /\ Called = Listed
        /\ \A u \in Called :
              AllKinds(u, UnitFailureKinds) => (InSkipList(u) /\ ~InSuccessList(u))

\* C3: after Sandwich.process on a document of three pages, with a
\* completion service whose only bad answer is invalid JSON for the Extract
\* call of page 2, the run has not failed, the final combined output holds
\* two pages, the skip list of the Extract stage is one record naming
\* page 2, and pipeline_complete is true
C3_EndToEndPartialFailure ==
    (pc = "idle" /\ result.op = "sandwich" /\ result.count = 3)
    => /\ result.status # "FAILED"
       /\ final_output.exists /\ Len(final_output.pages) = 2
       /\ Len(metadata.cleaning_info.skipped_pages) = 1
       /\ metadata.cleaning_info.skipped_pages[1].filename = 2
       /\ metadata.pipeline_complete

(***************************************************************************)
(* Properties of the metadata file                                         *)
(***************************************************************************)
HasStage(m, stage) ==
    \E i \in 1..Len(m.stages_completed) : m.stages_completed[i] = stage
StageCount(m, stage) ==
    Cardinality({i \in 1..Len(m.stages_completed) : m.stages_completed[i] = stage})

\* the steps in which a stage runner makes its metadata update and returns
ButterRecords ==
    pc = "butter_process" /\ pc' = "butter_return" /\ result'.status = "returned"
JellyRecords ==
    pc = "jelly_process" /\ pc' = "jelly_return" /\ result'.status = "returned"

\* C12: a metadata update made for a stage whose name is already in
\* stages_completed leaves the name there exactly once and leaves one info
\* entry for the stage, which holds the figures of this call and nothing
\* of the earlier one; the entry of the other stage is not touched
C12_MetadataIdempotence ==
    [][/\ (ButterRecords /\ HasStage(metadata, "enhancement"))
          => /\ StageCount(metadata', "enhancement") = 1
             /\ Len(metadata'.stages_completed) = Len(metadata.stages_completed)
             /\ metadata'.enhancement_info.present
             /\ metadata'.enhancement_info.files_enhanced = Len(enhanced_docs)
             /\ metadata'.enhancement_info.skipped_pages = skipped_pages
             /\ metadata'.enhancement_info.enhancement_summary =
                   {enhanced_docs[i].filename[1] : i \in 1..Len(enhanced_docs)}
             /\ metadata'.cleaning_info = metadata.cleaning_info
       /\ (JellyRecords /\ HasStage(metadata, "cleaning"))
          => /\ StageCount(metadata', "cleaning") = 1
             /\ Len(metadata'.stages_completed) = Len(metadata.stages_completed)
             /\ metadata'.cleaning_info.present
             /\ metadata'.cleaning_info.pages_processed = Len(processed_pages)
             /\ metadata'.cleaning_info.skipped_pages = skipped_pages
             /\ metadata'.cleaning_info.processing_summary =
                   {processed_pages[i].page_id : i \in 1..Len(processed_pages)}
             /\ metadata'.enhancement_info = metadata.enhancement_info
      ]_vars

\* C12 witness: the Extract stage has made its metadata update for the
\* second time (a page this run skipped has a file from an earlier run),
\* and the info entry holds the skip list of this run
C12_Witness ==
    /\ pc = "jelly_return" /\ result.status = "returned"
    /\ Len(skipped_pages) = 1 /\ skipped_pages[1].filename \in DOMAIN cleaned
    /\ processed_pages # <<>>
    /\ StageCount(metadata, "cleaning") = 1
    /\ metadata.cleaning_info.skipped_pages = skipped_pages
    /\ metadata.cleaning_info.pages_processed = Len(processed_pages)

\* the stage names the three stages write
StageNames == {"01_parsed_markdown", "enhancement", "cleaning"}

\* C13: in every step of the operations on a document folder, a stage name
\* that is in stages_completed stays in it, and no stage name is in it
\* more than once
C13_StagesOnlyGrow ==
    [][/\ \A stage \in StageNames :
             HasStage(metadata, stage) => HasStage(metadata', stage)
       /\ \A stage \in StageNames : StageCount(metadata', stage) <= 1
      ]_vars

\* C14: a stage runner that makes its metadata update when the folder has
\* no metadata file leaves a metadata file that holds the stage name in
\* stages_completed and the info of the stage
C14_RecordStageInitializes ==
    [][/\ (ButterRecords /\ ~metadata.exists)
          => /\ metadata'.exists
             /\ HasStage(metadata', "enhancement")
             /\ metadata'.enhancement_info.present
       /\ (JellyRecords /\ ~metadata.exists)
          => /\ metadata'.exists
             /\ HasStage(metadata', "cleaning")
             /\ metadata'.cleaning_info.present
      ]_vars

\* C15: a stage runner whose loop has ended on a folder whose metadata file
\* is missing or is not JSON returns its result all the same (no page
\* having keywords that cannot be counted)
C15_MetadataFailureTolerated ==
    (/\ StageReturned
     /\ ~metadata.exists \/ metadata.corrupt
     /\ ~keywords_unhashable(processed_pages))
    => result.status = "returned"

\* C16: pipeline_complete becomes true only in the step in which the
\* Extract stage, the last stage that writes the metadata file, makes its
\* metadata update, which puts "cleaning" in stages_completed; in every
\* state before that step the flag is false
C16_CompleteOnlyByLastStage ==
    [][(metadata'.pipeline_complete /\ ~metadata.pipeline_complete)
       => (JellyRecords /\ HasStage(metadata', "cleaning"))
      ]_vars

\* C16 witness: the Extract stage has made its metadata update after the
\* Enhance stage had made its own, and the flag is true
C16_Witness ==
    /\ pc = "jelly_return" /\ result.status = "returned"
    /\ HasStage(metadata, "enhancement") /\ metadata.enhancement_info.present
    /\ HasStage(metadata, "cleaning")
    /\ metadata.pipeline_complete

(***************************************************************************)
(* Properties of the orchestrator and of the command line program          *)
(***************************************************************************)
\* the place of a document state in the order of the pipeline
StateRank(state) ==
    CASE state = "NotStarted" -> 0
      [] state = "Parsed" -> 1
      [] state = "Enhanced" -> 2
      [] state = "Extracted" -> 3
      [] state = "Reshaped" -> 4
      [] OTHER -> 5

\* no stage is in the sequence twice
NoStageTwice(started) ==
    \A i, j \in 1..Len(started) : started[i] = started[j] => i = j

C18_FailureObject ==
    (sw_summary.returned /\ sw_state = "Failed")
    => /\ sw_summary.status = "FAILED"
       /\ sw_summary.document_folder \notin {"none", "PIPELINE_FAILED"}
       /\ sw_summary.total_processing_time_seconds = sw_elapsed
       /\ sw_summary.error_type # "none" /\ sw_summary.error_message # "none"

\* C19: a run with skip_butter on a PDF that exists, with the API key set
\* and services that answer every call, returns with the document in
\* Extracted or later, the Extract stage started and the Enhance stage
\* never started
C19_SkipButterExtracts ==
    (/\ sw_summary.returned
     /\ cli_env.skip_butter /\ cli_env.services = "all_succeed")
    => /\ sw_state \in {"Extracted", "Reshaped"}
       /\ \E i \in 1..Len(sw_started) : sw_started[i] = "extract"
       /\ \A i \in 1..Len(sw_started) : sw_started[i] # "enhance"

\* C20: the program exits 0 when the services let the pipeline through,
\* fully or with some units skipped, and when Sandwich.process has
\* returned it exits 1 exactly when the document is in Failed
C20_ExitCodes ==
    cli_pc = "exited"
    => /\ (/\ cli_env.pdf_exists /\ cli_env.openai_key
           /\ cli_env.services \in {"all_succeed", "some_skipped"})
          => cli_exit = 0
       /\ sw_summary.returned => (cli_exit = 1 <=> sw_state = "Failed")

(***************************************************************************)
(* Properties of the units across the stages                              *)
(***************************************************************************)
\* the metadata file records the unit as skipped by the Enhance stage
EnhanceSkipped(unit) ==
    /\ metadata.exists /\ ~metadata.corrupt
    /\ \E i \in 1..Len(metadata.enhancement_info.skipped_pages) :
          metadata.enhancement_info.skipped_pages[i].filename = unit

\* the step in which the Extract stage hands a unit to its unit processor
JellyProcesses(unit) ==
    /\ pc = "jelly_process" /\ idx <= Len(md_files) /\ md_files[idx] = unit
    /\ unit \in DOMAIN replies'

\* C21: the Extract stage hands no unit to its unit processor that the
\* metadata file records as skipped by the Enhance stage, and writes no
\* final combined output that holds a page of such a unit
C21_SkipTerminal ==
    [][\A unit \in Units :
          EnhanceSkipped(unit)
          => /\ ~JellyProcesses(unit)
             /\ final_output' # final_output
                => \A i \in 1..Len(final_output'.pages) :
                      final_output'.pages[i].page_id # unit
      ]_vars

(***************************************************************************)
(* Properties of the Reshape stage                                         *)
(***************************************************************************)
\* the table passed to convert_table has both of its arrays
IsTable == toast_table.has_columns /\ toast_table.has_rows

\* row i of the table passed is an array as long as the columns array
Matches(i) ==
    /\ toast_table.rows[i].kind = "list"
    /\ Len(toast_table.rows[i].cells) = Len(toast_table.columns)

\* C22: convert_table returns as many rows as it was given, in the same
\* order; a row as long as the columns array has become the mapping that
\* gives, for every position, the value at that position under the column
\* name at that position; every other row is the row as it was
C22_Reshape ==
    (toast_pc = "returned" /\ IsTable)
    => /\ Len(toast_result.rows) = Len(toast_table.rows)
       /\ \A i \in 1..Len(toast_table.rows) :
             IF Matches(i)
             THEN /\ toast_result.rows[i].kind = "object"
                  /\ DOMAIN toast_result.rows[i].entries =
                        {toast_table.columns[j] : j \in 1..Len(toast_table.columns)}
                  /\ \A j \in 1..Len(toast_table.columns) :
                        toast_result.rows[i].entries[toast_table.columns[j]] =
                           toast_table.rows[i].cells[j]
             ELSE toast_result.rows[i] = toast_table.rows[i]

(***************************************************************************)
(* Properties of the skip records and of the order of a stage run          *)
(***************************************************************************)
\* the answer the completion service gave to the one call made for unit
OnlyReply(unit) == replies[unit][1]

\* C23: in a stage run, the skip record of a unit whose call was answered
\* with an empty message holds the reason "empty response", and in the
\* Extract stage the skip record of a unit whose answer was not JSON holds
\* the reason "malformed response"
C23_SkipReasons ==
    (pc \in {"butter_process", "butter_return", "jelly_process", "jelly_return"})
    => \A i \in 1..Len(skipped_pages) :
          LET unit == skipped_pages[i].filename
          IN /\ (Len(replies[unit]) = 1 /\ OnlyReply(unit) = "empty")
                => skipped_pages[i].error = "empty response"
             /\ (result.op = "jelly" /\ OnlyReply(unit) = "malformed")
                => skipped_pages[i].error = "malformed response"

\* the step in which the caller starts the stage runner op
StageStarts(op) == pc = "idle" /\ ops' = ops + 1 /\ result'.op = op

\* the stage runner has raised FileNotFoundError at once: no file was
\* listed, no call was made and nothing in the document folder changed
RaisedAtOnce ==
    /\ pc' = "idle"
    /\ result'.status = "raised" /\ result'.error = "FileNotFoundError"
    /\ md_files' = <<>> /\ replies' = <<>>
    /\ metadata' = metadata
    /\ dirs' = dirs /\ parsed' = parsed /\ enhanced' = enhanced
    /\ cleaned' = cleaned /\ final_output' = final_output

EnhancedWritten(i) ==
    LET unit == enhanced_docs[i].filename[1]
    IN unit \in DOMAIN enhanced /\ enhanced[unit] = EnhancedFileText(enhanced_docs[i])

\* the JSON file of the i-th page of the success list is written
CleanedWritten(i) ==
    LET unit == processed_pages[i].page_id
    IN unit \in DOMAIN cleaned /\ cleaned[unit] = with_document_id(processed_pages[i])

\* C25: in every state of a stage run, the file of every unit that is in
\* the success list of the stage is written
C25_SavedBeforeListed ==
    /\ \A i \in 1..Len(enhanced_docs) : EnhancedWritten(i)
    /\ \A i \in 1..Len(processed_pages) : CleanedWritten(i)

\* C26: at every point of a stage run, the file of every unit of the
\* success list is written, the unit in flight (the last of the list, while
\* its file is being saved) excepted
C26_ImmediatePersistence ==
    /\ \A i \in 1..Len(enhanced_docs) :
          (pc = "butter_save" /\ i = Len(enhanced_docs)) \/ EnhancedWritten(i)
    /\ \A i \in 1..Len(processed_pages) :
          (pc = "jelly_save" /\ i = Len(processed_pages)) \/ CleanedWritten(i)

\* C26 witness: the Enhance stage is about to save its second document,
\* which is not on disk, and the first one is
C26_Witness ==
    /\ pc = "butter_save" /\ Len(enhanced_docs) = 2
    /\ EnhancedWritten(1) /\ ~EnhancedWritten(2)
    /\ enhanced_docs[2].filename[1] \notin DOMAIN enhanced

\* a stage runner is running
InStage == pc \notin {"idle", "off"}

\* every file the stage runner listed is in its success list or in its
\* skip list
AllTerminal == \A unit \in Listed : InSuccessList(unit) \/ InSkipList(unit)

\* C27: during a stage run, the metadata file changes only in the one step
\* that ends the run of the loop; at that step the loop is over and every
\* listed unit is in the success list or in the skip list, and what is
\* written is the count of the success list and the whole skip list
C27_JoinBarrier ==
    [][/\ (InStage /\ metadata' # metadata) => (ButterRecords \/ JellyRecords)
       /\ (ButterRecords \/ JellyRecords) => (idx > Len(md_files) /\ AllTerminal)
       /\ ButterRecords
          => /\ HasStage(metadata', "enhancement")
             /\ metadata'.enhancement_info.files_enhanced = Len(enhanced_docs)
             /\ metadata'.enhancement_info.skipped_pages = skipped_pages
       /\ JellyRecords
          => /\ HasStage(metadata', "cleaning")
             /\ metadata'.cleaning_info.pages_processed = Len(processed_pages)
             /\ metadata'.cleaning_info.skipped_pages = skipped_pages
      ]_vars

\* C27 witness: the Enhance stage has made its metadata update after a run
\* over three units, two in the success list and the second one skipped
C27_Witness ==
    /\ pc = "butter_return" /\ result.status = "returned"
    /\ Len(md_files) = 3 /\ Len(enhanced_docs) = 2
    /\ Len(skipped_pages) = 1 /\ skipped_pages[1].filename = md_files[2]
    /\ AllTerminal
    /\ metadata.enhancement_info.files_enhanced = 2
    /\ metadata.enhancement_info.skipped_pages = skipped_pages

\* C28: in both stages the stage runner goes through the files in
\* ascending order of file name, whatever the order of the listing; so the
\* success list and the skip list are in that order too
C28_LexicographicOrder ==
    InStage
    => /\ \A i, j \in 1..Len(md_files) : i < j => md_files[i] < md_files[j]
       /\ \A i, j \in 1..Len(enhanced_docs) :
             i < j => enhanced_docs[i].filename[1] < enhanced_docs[j].filename[1]
       /\ \A i, j \in 1..Len(processed_pages) :
             i < j => processed_pages[i].page_id < processed_pages[j].page_id
       /\ \A i, j \in 1..Len(skipped_pages) :
             i < j => skipped_pages[i].filename < skipped_pages[j].filename

(***************************************************************************)
(* Properties of the unit processors on a text that does not fit           *)
(***************************************************************************)
\* Butter.process has returned
Enhanced == enh_pc \in {"enhanced", "extracted"}

\* the call made for chunk i was answered with a text
Succeeded(i) == ~enh_answers[i].raises /\ enh_answers[i].content # <<>>

\* the results of the chunks whose call succeeded, in the order of the chunks
KeptChunks == SelectSeq(enh_chunk_docs, LAMBDA d : ~d.is_none)

\* C29: for a text split into several chunks, every chunk has its own
\* result, which is None exactly when its own call failed; Butter.process
\* returns None exactly when every call failed; otherwise the enhanced
\* content, cut at the separator, is the results of the chunks whose call
\* succeeded in the order of the chunks, and the notes are their notes in
\* the same order
C29_ChunkedEnhance ==
    (Enhanced /\ Len(EnhanceChunks) > 1)
    => /\ Len(enh_chunk_docs) = Len(EnhanceChunks)
       /\ \A i \in 1..Len(EnhanceChunks) : enh_chunk_docs[i].is_none <=> ~Succeeded(i)
       /\ enh_doc.is_none <=> \A i \in 1..Len(EnhanceChunks) : ~Succeeded(i)
       /\ ~enh_doc.is_none
          => /\ Split(enh_doc.enhanced_content, MergeSep) =
                   [i \in 1..Len(KeptChunks) |-> KeptChunks[i].enhanced_content]
             /\ enh_doc.enhancement_notes =
                   Concat([i \in 1..Len(KeptChunks) |-> KeptChunks[i].enhancement_notes])

\* C29 witness: of three chunks the call of the second one failed, and the
\* content returned is the first result, the separator and the third result
C29_Witness ==
    /\ Enhanced /\ Len(EnhanceChunks) = 3
    /\ Succeeded(1) /\ ~Succeeded(2) /\ Succeeded(3)
    /\ ~enh_doc.is_none
    /\ enh_doc.enhanced_content =
          enh_chunk_docs[1].enhanced_content \o MergeSep \o enh_chunk_docs[3].enhanced_content
    /\ enh_chunk_docs[1].enhanced_content # enh_chunk_docs[3].enhanced_content

\* C30: like the Enhance unit processor, the Extract unit processor sends
\* the completion service no text whose estimated cost is over max_tokens:
\* a text over max_tokens handed to it is sent in more than one call, chunk
\* by chunk
C30_BothVariantsChunk ==
    /\ \A i \in 1..Len(enh_calls) :
          enh_calls[i].stage = "extract"
          => estimate_tokens(enh_calls[i].content) <= enh_max_tokens
    /\ (/\ enh_pc = "extracted"
        /\ estimate_tokens(content_to_process(enh_input_doc)) > enh_max_tokens)
       => Cardinality({i \in 1..Len(enh_calls) : enh_calls[i].stage = "extract"}) > 1

(***************************************************************************)
(* Properties of the chunker followed turn by turn                         *)
(***************************************************************************)
\* C31: every call of the chunker returns, whatever the text and the budget
C31_ChunkerTerminates == <>(chk_pc = "returned")

\* C31 witness: the chunker has returned from a call with a budget at or
\* below the prompt overhead, on a text of several paragraphs of which one
\* is blank and one holds more than one sentence
C31_Witness ==
    /\ chk_pc = "returned" /\ chk_max_tokens <= PromptOverhead
    /\ chk_state.char_pos > 0
    /\ Len(Paragraphs) > 1
    /\ \E p \in 1..Len(Paragraphs) : Strip(Paragraphs[p]) = <<>>
    /\ \E p \in 1..Len(Paragraphs) :
          /\ paragraph_too_large(Paragraphs[p], chk_max_tokens)
          /\ Len(Split(Paragraphs[p], SentenceSep)) > 1
    /\ chk_chunks = chunk_content(chk_content, chk_max_tokens)

(***************************************************************************)
(* Further properties of the unit processors                               *)
(***************************************************************************)
\* C32: the safety check rejects an answer exactly when the answer holds an
\* opening marker followed later by a closing marker: for a unit enhanced in
\* one call whose answer is a text other than the chunk, the document keeps
\* the answer if and only if the answer holds no such pair
C32_PairedSentinelOnly ==
    (/\ enh_pc \in {"enhanced", "extracted"}
     /\ Len(enh_answers) = 1
     /\ ~enh_answers[1].raises /\ enh_answers[1].content # <<>>
     /\ enh_answers[1].content # EnhanceChunks[1])
    => (enh_doc.enhanced_content = enh_answers[1].content
        <=> ~ContainsSentinel(enh_answers[1].content))

(***************************************************************************)
(* Further properties of the stage runners                                 *)
(***************************************************************************)
\* a step of the stage runner that reports as op: its start, a turn of its
\* loop, its end or its return
StepOf(op) == result'.op = op /\ (pc # "idle" \/ ops' # ops)

\* C33: the Enhance and Extract stages keep what earlier stages wrote: a
\* step of Butter changes no parsed file, no cleaned file and no final
\* output, a step of Jelly changes no parsed and no enhanced file, neither
\* removes a folder, and each creates its own stage folder only
C33_PriorStagesRetained ==
    [][/\ StepOf("butter") =>
            /\ parsed' = parsed /\ cleaned' = cleaned /\ final_output' = final_output
            /\ dirs \subseteq dirs' /\ dirs' \subseteq dirs \cup {"02_enhanced_markdown"}
       /\ StepOf("jelly") =>
            /\ parsed' = parsed /\ enhanced' = enhanced
            /\ dirs \subseteq dirs' /\ dirs' \subseteq dirs \cup {"03_cleaned_json"}]_vars

\* C33 witness: Butter and then Jelly have run on a folder of parsed files,
\* each has written a file of its own, and every parsed file is as the
\* parse stage wrote it
C33_Witness ==
    /\ pc = "idle" /\ result.op = "jelly" /\ result.status = "returned"
    /\ DOMAIN parsed # {} /\ DOMAIN enhanced # {} /\ DOMAIN cleaned # {}
    /\ final_output # NoFinalOutput
    /\ \A unit \in DOMAIN parsed : parsed[unit] = ParsedFileText(unit, PageContent(unit))

\* C34: when a stage runner returns, every unit it listed is in exactly one
\* of its success list and its skip list, and the lengths of the two lists
\* add up to the number of units, also when the write of a page file failed
C34_OutcomePartition ==
    (StageReturned /\ result.status = "returned")
    => /\ \A unit \in Listed : InSuccessList(unit) # InSkipList(unit)
       /\ Len(enhanced_docs) + Len(processed_pages) + Len(skipped_pages)
             = Len(md_files)

(***************************************************************************)
(* Further properties of the chunked Enhance                               *)
(***************************************************************************)
\* C35: whenever Butter.process returns a document for a text it split into
\* chunks, the merged content has one part for every chunk: the number of
\* parts between the separators equals the number of chunks
C35_NoChunkLost ==
    (Enhanced /\ Len(EnhanceChunks) > 1 /\ ~enh_doc.is_none)
    => Len(Split(enh_doc.enhanced_content, MergeSep)) = Len(EnhanceChunks)

(***************************************************************************)
(* Further properties of the orchestrator                                  *)
(***************************************************************************)
\* C36: on the success path Sandwich.process runs the four stages in order
\* and does not fail: a run on a PDF that exists, with the API key set,
\* without skip_butter and with services that answer every call, returns
\* with Parse, Enhance, Extract and Reshape started in that order and a
\* summary whose status is not FAILED
C36_SuccessPath ==
    (/\ sw_summary.returned
     /\ ~cli_env.skip_butter /\ cli_env.services = "all_succeed")
    => /\ sw_started = <<"parse", "enhance", "extract", "reshape">>
       /\ sw_summary.status # "FAILED"

\* C37: failures of units never fail the document: once the parse stage has
\* written at least one page and Butter has run over the folder, whatever
\* calls failed, Jelly run on the folder returns instead of raising and a
\* final combined output is on disk (the schema of an answer that is valid
\* JSON set aside)
C37_UnitFailuresNeverFail ==
    (/\ pc = "idle" /\ result.op = "jelly"
     /\ DOMAIN parsed # {} /\ "02_enhanced_markdown" \in dirs
     /\ result.error # "TypeError")
    => /\ result.status = "returned"
       /\ final_output.exists

C39_EveryCellKept ==
    (toast_pc = "returned" /\ IsTable)
    => \A i \in 1..Len(toast_table.rows) :
          Matches(i)
          => LET entries == toast_result.rows[i].entries
             IN /\ Cardinality(DOMAIN entries) = Len(toast_table.columns)
                /\ \A j \in 1..Len(toast_table.columns) :
                      \E name \in DOMAIN entries :
                         entries[name] = toast_table.rows[i].cells[j]

(***************************************************************************)
(* Further properties of the metadata file                                 *)
(***************************************************************************)
\* the fields of the metadata file that no stage runner owns
SameDocumentFields(m, n) ==
    /\ m.exists = n.exists /\ m.corrupt = n.corrupt
    /\ m.page_count = n.page_count /\ m.files = n.files

\* C40: a metadata update changes only stages_completed, the info entry of
\* its stage and, for the Extract stage, the two completion flags: the
\* update of Butter leaves the page count, the file list, the info entry of
\* the Extract stage and both flags as they were, and the update of Jelly
\* leaves the page count, the file list and the info entry of the Enhance
\* stage as they were
C40_RecordStageFrame ==
    [][/\ ButterRecords
          => /\ SameDocumentFields(metadata', metadata)
             /\ metadata'.cleaning_info = metadata.cleaning_info
             /\ metadata'.pipeline_complete = metadata.pipeline_complete
             /\ metadata'.final_output_ready = metadata.final_output_ready
       /\ JellyRecords
          => /\ SameDocumentFields(metadata', metadata)
             /\ metadata'.enhancement_info = metadata.enhancement_info
      ]_vars

\* C40 witness: Butter and then Jelly have made their metadata updates on a
\* folder of two pages whose metadata file held the parse stage; the file
\* still holds the page count and the file list, and the info entries of
\* both stages
C40_Witness ==
    /\ pc = "jelly_return" /\ result.status = "returned"
    /\ metadata.exists /\ metadata.page_count = 2 /\ metadata.files = <<1, 2>>
    /\ metadata.stages_completed = <<"01_parsed_markdown", "enhancement", "cleaning">>
    /\ metadata.enhancement_info.present /\ metadata.enhancement_info.files_enhanced > 0
    /\ metadata.cleaning_info.present

====
